---------------------------- MODULE Spec2Model ----------------------------
(***************************************************************************)
(* Model of the PDF service's storage-consistency layer: the durable       *)
(* metadata store (StorageService over SQLite), the filesystem, the        *)
(* document truncation pipeline (PdfService.processPdfTruncation) and the  *)
(* image conversion pipeline (ImageService.processPdfToImages).            *)
(*                                                                         *)
(* Node runs one callback at a time: the code between two real I/O waits   *)
(* (fs, the renderer) runs without interruption, because better-sqlite3 is *)
(* synchronous and an await of an already settled promise only yields to   *)
(* microtasks of the same chain.  Every action below is one such segment:  *)
(* it starts when an I/O operation completes and runs to the next I/O.     *)
(***************************************************************************)
EXTENDS Integers, Sequences, FiniteSets, TLC

(* ------------------------------ bounds --------------------------------- *)
\* keys FileUtils.generateKey may hand out in one behaviour
MaxKeys == 3
\* largest page count of an uploaded document
MaxPages == 2
\* longest explicit page list of a request
MaxSel == 2
\* operations (requests) started in one behaviour; also the last clock value
MaxOps == 2
\* documents uploaded in one behaviour
MaxDocs == 1
\* files removed from disk behind the service's back in one behaviour
MaxRemovals == 1

\* upload ids initiateUpload may hand out in one behaviour
MaxUploadIds == 2
\* largest Content-Length of an upload request, in bytes
MaxBytes == 3
\* calls to the upload tracker in one behaviour
MaxCalls == 4
\* the hour of setCleanupTimer, in ticks of the model's time
HourTicks == 2

\* keys and documents where images of two parents are stored side by side
MaxParentKeys == 4
MaxParents == 2

\* slots for requests in flight: two requests may overlap
Tasks == {1, 2}

NoKey == 0
NoTime == 0
NoError == "null"

Keys == 1..MaxKeys
PageNums == 0..(MaxPages + 1)

VARIABLES
  disk,      \* filesystem: path -> bytes (a path is named by the key in it)
  files,     \* table files: key -> row
  images,    \* table images: key -> row
  status,    \* [pdf |-> table pdf_processing_status, img |-> image_processing_status]
  nextKey,   \* next key of FileUtils.generateKey (uuid v4: never repeats)
  clock,     \* what new Date() reads
  task,      \* the requests in flight, one record per slot
  uploads,   \* documents uploaded so far
  removals,  \* files removed from disk behind the service's back so far
  last,      \* outcome of the last direct store call
  progressMap,    \* UploadProgressService.progressMap: upload id -> UploadProgress
  cleanupTimers,  \* UploadProgressService.cleanupTimers: upload id -> ticks until it fires
  timeouts,       \* the pending timers of Node: the id in the callback, ticks until it fires
  nextUploadId,   \* next id of uuidv4 in initiateUpload
  calls,          \* calls to the upload tracker so far
  streams,        \* the upload requests in the upload handler, one record per slot
  memFiles,       \* the in-memory StorageService: files
  memStatus,      \* the in-memory StorageService: processingStatus
  memLast         \* outcome of the last call to the in-memory StorageService

\* the in-memory StorageService beside the durable one
mem == <<memFiles, memStatus, memLast>>

\* the upload tracker and the requests in its handler
tracker == <<progressMap, cleanupTimers, timeouts, nextUploadId, calls, streams>>

\* the stores and the requests to them
store == <<disk, files, images, status, nextKey, clock, task, uploads, removals, mem>>

vars == <<disk, files, images, status, nextKey, clock, task, uploads, removals, last, tracker,
          mem>>

(* ----------------------------- helpers --------------------------------- *)
Remove(f, k) == [x \in (DOMAIN f) \ {k} |-> f[x]]

RemoveAll(f, ks) == [x \in (DOMAIN f) \ ks |-> f[x]]

Put(f, k, v) == [x \in (DOMAIN f) \cup {k} |-> IF x = k THEN v ELSE f[x]]

SeqOfLen(S, n) == UNION {[1..m -> S] : m \in 0..n}


(* --------------------------- metadata store ---------------------------- *)
StatusFields == {"status", "progress", "error", "createdAt", "completedAt"}

\* the error column: a falsy message ('' or undefined) is written as NULL and
\* NULL reads back as undefined; any other string survives stringify/parse
ErrColumn(e) == IF e = "" \/ e = NoError THEN NoError ELSE e

\* fault: on conflict a NULL does not replace the stored error or completion time
SetStatusRowCoalesce(tbl, k, s) ==
  IF k \in DOMAIN tbl
    THEN [tbl EXCEPT ![k] = [status |-> s.status, progress |-> s.progress,
                             error |-> IF ErrColumn(s.error) = NoError
                                         THEN @.error ELSE ErrColumn(s.error),
                             createdAt |-> @.createdAt,
                             completedAt |-> IF s.completedAt = NoTime
                                               THEN @.completedAt ELSE s.completedAt]]
    ELSE Put(tbl, k, [status |-> s.status, progress |-> s.progress,
                      error |-> ErrColumn(s.error), createdAt |-> s.createdAt,
                      completedAt |-> s.completedAt])

\* INSERT ... ON CONFLICT(key) DO UPDATE SET status, progress, error, completedAt
SetStatusRow(tbl, k, s) ==
  IF k \in DOMAIN tbl
    THEN [tbl EXCEPT ![k] = [status |-> s.status, progress |-> s.progress,
                             error |-> ErrColumn(s.error), createdAt |-> @.createdAt,
                             completedAt |-> s.completedAt]]
    ELSE Put(tbl, k, [status |-> s.status, progress |-> s.progress,
                      error |-> ErrColumn(s.error), createdAt |-> s.createdAt,
                      completedAt |-> s.completedAt])

\* fault: a field the update does not name falls back to its initial value
MergeStatusDefaults(cur, u) ==
  [f \in StatusFields |->
     IF f \in DOMAIN u THEN u[f]
     ELSE IF f \in {"status", "createdAt"} THEN cur[f]
     ELSE IF f = "progress" THEN 0
     ELSE IF f = "error" THEN NoError
     ELSE NoTime]

\* { ...currentStatus, ...updates }
MergeStatus(cur, u) == [f \in StatusFields |-> IF f \in DOMAIN u THEN u[f] ELSE cur[f]]

\* setProcessingStatus / setImageProcessingStatus on the tables st
SetStatus(st, table, k, s) == [st EXCEPT ![table] = SetStatusRow(@, k, s)]

\* getStatus throws NotFoundError when the table has no row for the key
HasStatus(st, table, k) == k \in DOMAIN st[table]

\* updateProcessingStatus / updateImageProcessingStatus, when the row exists
UpdateStatus(st, table, k, u) ==
  [st EXCEPT ![table] = SetStatusRow(@, k, MergeStatus(@[k], u))]

\* what updateProcessingStatus returns: the merged object, not the stored row
UpdateResult(st, table, k, u) == MergeStatus(st[table][k], u)

\* FileUtils.fileExists
FileExists(d, path) == path \in DOMAIN d

\* FileUtils.deleteFile: unlink, ENOENT swallowed
Unlink(d, path) == Remove(d, path)

\* a SELECT without its WHERE clause: the images of every parent
EveryImage(imgs, k) == DOMAIN imgs

\* SELECT * FROM images WHERE originalPdfKey = ?
GetImagesByOriginalKey(imgs, k) == {i \in DOMAIN imgs : imgs[i].originalPdfKey = k}

\* fault: the DELETE does not cascade to the images
KeepImages(imgs, k) == imgs

\* DELETE FROM files WHERE key = ? : the images of the key go with it
\* (FOREIGN KEY ... ON DELETE CASCADE, foreign keys are on in better-sqlite3)
CascadeImages(imgs, k) == RemoveAll(imgs, GetImagesByOriginalKey(imgs, k))

\* fault: the images table has no foreign key
AnyParent(fs, imgs, img) == img.key \notin DOMAIN imgs

\* the INSERT of storeImage succeeds when every named parameter is bound, the
\* key is new and the parent is a row of files
StoreImageAccepts(fs, imgs, img) ==
  /\ img.originalPdfKey # NoKey
  /\ img.originalPdfKey \in DOMAIN fs
  /\ img.key \notin DOMAIN imgs

ImageRow(img) == [originalPdfKey |-> img.originalPdfKey, filePath |-> img.filePath,
                  size |-> img.size, pageNumber |-> img.pageNumber, format |-> img.format]

(* --------------------------- page resolution --------------------------- *)
NoReq == [hasPages |-> FALSE, pages |-> <<>>, hasRange |-> FALSE, start |-> 0,
          hasEnd |-> FALSE, end |-> 0, format |-> "none"]

Invalid == [ok |-> FALSE, idx |-> <<>>]

Resolved(s) == [ok |-> TRUE, idx |-> s]

\* fault: the loop stops one page early (i < end)
RangeIndicesHalfOpen(start, end) ==
  IF end <= start THEN <<>> ELSE [i \in 1..(end - start) |-> start + i - 2]

\* for (let i = start; i <= end; i++) pages.push(i - 1)
RangeIndices(start, end) ==
  IF end < start THEN <<>> ELSE [i \in 1..(end - start + 1) |-> start + i - 2]

\* fault: the indices come out in reverse order
PagesBranchReversed(req, totalPages) ==
  IF \E i \in 1..Len(req.pages) : req.pages[i] < 1 \/ req.pages[i] > totalPages
    THEN Invalid
    ELSE Resolved([i \in 1..Len(req.pages) |-> req.pages[Len(req.pages) + 1 - i] - 1])

PagesBranch(req, totalPages) ==
  IF \E i \in 1..Len(req.pages) : req.pages[i] < 1 \/ req.pages[i] > totalPages
    THEN Invalid
    ELSE Resolved([i \in 1..Len(req.pages) |-> req.pages[i] - 1])

\* fault: an end beyond the last page is clamped instead of rejected
RangeBranchClamped(req, totalPages) ==
  LET end == IF req.hasEnd /\ req.end <= totalPages THEN req.end ELSE totalPages IN
  IF req.start < 1 \/ req.start > totalPages THEN Invalid
  ELSE Resolved(RangeIndices(req.start, end))

RangeBranch(req, totalPages) ==
  LET end == IF req.hasEnd THEN req.end ELSE totalPages IN
  IF req.start < 1 \/ req.start > totalPages THEN Invalid
  ELSE IF end > totalPages THEN Invalid
  ELSE Resolved(RangeIndices(req.start, end))

\* PdfService.getPageIndices
PdfGetPageIndices(req, totalPages) ==
  IF req.hasPages THEN PagesBranch(req, totalPages)
  ELSE IF req.hasRange THEN RangeBranch(req, totalPages)
  ELSE Invalid

\* ImageService.getPageIndices: with neither, all pages
ImgGetPageIndices(req, totalPages) ==
  IF req.hasPages THEN PagesBranch(req, totalPages)
  ELSE IF req.hasRange THEN RangeBranch(req, totalPages)
  ELSE Resolved([i \in 1..totalPages |-> i - 1])

\* copyPages(pdfDoc, pagesToExtract) then addPage for each, in order
CopyPages(bytes, idx) == [i \in 1..Len(idx) |-> bytes[idx[i] + 1]]

\* request.format || 'png'
FormatOf(req) == IF req.format = "none" THEN "png" ELSE req.format

\* fault: the schema accepts every body
AnyRequest(op, req) == TRUE

\* truncationRequestSchema / imageConversionRequestSchema: pages is a non-empty
\* array of integers >= 1, pageRange has start >= 1 and end >= start, and
\* xor('pages', 'pageRange'); only the image schema knows the key format
ValidRequest(op, req) ==
  /\ req.hasPages # req.hasRange
  /\ req.hasPages => Len(req.pages) >= 1 /\ \A i \in 1..Len(req.pages) : req.pages[i] >= 1
  /\ req.hasRange => req.start >= 1 /\ (req.hasEnd => req.end >= req.start)
  /\ op = "truncate" => req.format = "none"

\* the value the schema returns: format defaults to 'png'
Validated(op, req) == IF op = "convert" THEN [req EXCEPT !.format = FormatOf(req)] ELSE req


(* ------------------------------ requests ------------------------------- *)
PageLists == SeqOfLen(PageNums, MaxSel)

PagesReq(ps) == [NoReq EXCEPT !.hasPages = TRUE, !.pages = ps]

RangeReq(s, e) == [NoReq EXCEPT !.hasRange = TRUE, !.start = s, !.hasEnd = TRUE, !.end = e]

OpenRangeReq(s) == [NoReq EXCEPT !.hasRange = TRUE, !.start = s]

\* pages and pageRange both present
BothReq(ps, s) == [NoReq EXCEPT !.hasPages = TRUE, !.pages = ps, !.hasRange = TRUE, !.start = s]

WithFormat(req, f) == [req EXCEPT !.format = f]

\* the requests of the concurrent specification: a list within the document, a
\* list beyond its last page, and a request that names no page
Selections == {PagesReq(<<1>>), PagesReq(<<MaxPages + 1>>), NoReq}

\* ... and, for the conversion, a list of no page
ImgSelections == Selections \cup {PagesReq(<<>>)}

\* the requests of the sequential specification: every list and every range
AllSelections ==
  {PagesReq(ps) : ps \in PageLists}
    \cup {RangeReq(s, e) : s \in PageNums, e \in PageNums}
    \cup {OpenRangeReq(s) : s \in PageNums}
    \cup {BothReq(<<1>>, 1), NoReq}

AllImgSelections == AllSelections \cup {WithFormat(r, "jpeg") : r \in {PagesReq(<<1>>), OpenRangeReq(1)}}

(* ------------------------------- tasks --------------------------------- *)
EmptyTable == [x \in {} |-> NoKey]

NoRow == [filePath |-> NoKey, size |-> 0]

IdleTask == [op |-> "none", pc |-> "idle", key |-> NoKey, req |-> NoReq,
             row |-> NoRow, bytes |-> <<>>, totalPages |-> 0, idx |-> <<>>,
             newDoc |-> <<>>, outKey |-> NoKey, imgs |-> {}, pending |-> {},
             checking |-> {}, unlinking |-> {},
             conv |-> <<>>, err |-> NoError, raised |-> NoError, rethrown |-> FALSE]

\* fault: every run writes to the truncation-status table
OneTable(op) == "pdf"

TableOf(op) == IF op = "truncate" THEN "pdf" ELSE "img"

\* a slot is free when its request has returned and nothing it started is still running
Free(t) ==
  /\ task[t].pc \in {"idle", "done"}
  /\ task[t].pending = {}
  /\ task[t].checking = {}
  /\ task[t].unlinking = {}
  /\ \A i \in 1..Len(task[t].conv) : task[t].conv[i].st \in {"stored", "failed"}

\* a new request takes the lowest free slot and reads the clock
Begin(t) ==
  /\ Free(t)
  /\ \A u \in Tasks : u < t => ~Free(u)
  /\ clock < MaxOps
  /\ clock' = clock + 1

Allocated == 1..(nextKey - 1)

\* fault: the catch block rethrows without recording the failure
CatchSkipped(st, table, k, e, now) == st

\* the catch block of a pipeline: updateStatus(key, {status: 'error', error: message,
\* completedAt: new Date()}); getStatus inside it throws when the row is gone
CatchStatus(st, table, k, e, now) ==
  IF HasStatus(st, table, k)
    THEN UpdateStatus(st, table, k, [status |-> "error", error |-> e, completedAt |-> now])
    ELSE st

\* ... then `throw error`, unless the update itself threw
Failed(tk, st, e) ==
  [tk EXCEPT !.pc = "done", !.err = e,
             !.raised = IF HasStatus(st, TableOf(tk.op), tk.key) THEN e ELSE "StatusNotFound",
             !.rethrown = HasStatus(st, TableOf(tk.op), tk.key)]

InitialStatus(now) == [status |-> "processing", progress |-> 0, error |-> NoError,
                       createdAt |-> now, completedAt |-> NoTime]

\* fault: the last update records no completion time
CompletedWithoutTime(now) == [status |-> "completed", progress |-> 100]

\* the last update of a successful run
CompletedUpdate(now) == [status |-> "completed", progress |-> 100, completedAt |-> now]

\* fault: a progress update names the state only
ProgressStateOnly(p) == [status |-> "processing"]

ProgressUpdate(p) == [status |-> "processing", progress |-> p]

(* ----------------------- requests to the store -------------------------- *)
\* POST /upload: multer has written the file, storeFile records it
UploadWithin(n, keys, docs) ==
  /\ nextKey <= keys
  /\ uploads < docs
  /\ uploads' = uploads + 1
  /\ disk' = Put(disk, nextKey, [i \in 1..n |-> i])
  /\ files' = Put(files, nextKey, [filePath |-> nextKey, size |-> n])
  /\ nextKey' = nextKey + 1
  /\ UNCHANGED <<images, status, clock, task, removals, last, tracker, mem>>

Upload(n) == UploadWithin(n, MaxKeys, MaxDocs)

\* storeImage(key, image) for an image file on disk, the parent given by the caller
StoreImageWithin(parent, page, fmt, keys) ==
  LET img == [key |-> nextKey, originalPdfKey |-> parent, filePath |-> nextKey,
              size |-> 1, pageNumber |-> page, format |-> fmt] IN
  /\ nextKey <= keys
  /\ StoreImageAccepts(files, images, img)
  /\ disk' = Put(disk, nextKey, <<page>>)
  /\ images' = Put(images, nextKey, ImageRow(img))
  /\ nextKey' = nextKey + 1
  /\ UNCHANGED <<files, status, clock, task, uploads, removals, last, tracker, mem>>

StoreImage(parent, page, fmt) == StoreImageWithin(parent, page, fmt, MaxKeys)

\* a file disappears from disk behind the service's back
DiskRemove(p) ==
  /\ p \in DOMAIN disk
  /\ removals < MaxRemovals
  /\ removals' = removals + 1
  /\ disk' = Remove(disk, p)
  /\ UNCHANGED <<files, images, status, nextKey, clock, task, uploads, last, tracker, mem>>

(* ------------------------- pipelines: common --------------------------- *)
env == <<uploads, removals, last, tracker, mem>>

\* setStatus(processing, 0), then getFile up to its fs.access
RunStart(t, op, k, req) ==
  LET st1 == SetStatus(status, TableOf(op), k, InitialStatus(clock + 1))
      tk == [IdleTask EXCEPT !.op = op, !.key = k, !.req = req]
  IN /\ Begin(t)
     /\ IF k \in DOMAIN files
          THEN /\ status' = st1
               /\ task' = [task EXCEPT ![t] = [tk EXCEPT !.pc = "access", !.row = files[k]]]
          ELSE /\ status' = CatchStatus(st1, TableOf(op), k, "FileNotFound", clock + 1)
               /\ task' = [task EXCEPT ![t] = Failed(tk, st1, "FileNotFound")]
     /\ UNCHANGED <<disk, files, images, nextKey, env>>

\* a route handler: validate the body, then call the pipeline with the value;
\* a ValidationError goes to the error handler and the pipeline is not called
Route(t, op, k, req) ==
  IF ValidRequest(op, req)
    THEN RunStart(t, op, k, Validated(op, req))
    ELSE /\ Begin(t)
         /\ task' = [task EXCEPT ![t] = [IdleTask EXCEPT !.op = op, !.key = k, !.req = req,
                                                          !.pc = "done", !.raised = "Validation"]]
         /\ UNCHANGED <<disk, files, images, status, nextKey, env>>

\* the body the route validates: the text fields of the form and fileKey, which
\* the filename callback of multer puts into req.body; truncationRequestSchema
\* names pages and pageRange only, and an object schema rejects any other key
UploadBodyValid(req, hasFileKey) == ~hasFileKey /\ ValidRequest("truncate", req)

\* POST /upload-and-truncate after multer has written the file: validatePdf,
\* storeFile, and only then validateTruncationRequest(req.body) and the pipeline
UploadAndTruncate(t, n, isPdf, req) ==
  LET k == nextKey
      row == [filePath |-> k, size |-> n]
      tk == [IdleTask EXCEPT !.op = "uploadAndTruncate", !.key = k, !.req = req]
  IN /\ Begin(t)
     /\ nextKey <= MaxKeys
     /\ uploads < MaxDocs
     /\ uploads' = uploads + 1
     /\ nextKey' = nextKey + 1
     /\ disk' = Put(disk, k, IF isPdf THEN [i \in 1..n |-> i] ELSE <<>>)
     /\ IF ~isPdf
          THEN /\ task' = [task EXCEPT ![t] = [tk EXCEPT !.pc = "done",
                                                         !.raised = "Processing"]]
               /\ UNCHANGED <<files, status>>
          ELSE /\ files' = Put(files, k, row)
               /\ IF UploadBodyValid(req, TRUE)
                    THEN /\ status' = SetStatus(status, "pdf", k, InitialStatus(clock + 1))
                         /\ task' = [task EXCEPT ![t] =
                                       [tk EXCEPT !.op = "truncate", !.pc = "access",
                                                  !.row = row]]
                    ELSE /\ task' = [task EXCEPT ![t] = [tk EXCEPT !.pc = "done",
                                                                   !.raised = "Validation"]]
                         /\ UNCHANGED status
     /\ UNCHANGED <<images, removals, last, tracker, mem>>

\* getFile after fs.access: a stale row is deleted and NotFound thrown
RunAccess(t) ==
  LET tk == task[t] IN
  /\ tk.op \in {"truncate", "convert"}
  /\ tk.pc = "access"
  /\ IF FileExists(disk, tk.row.filePath)
       THEN /\ task' = [task EXCEPT ![t].pc = "read"]
            /\ UNCHANGED <<files, images, status>>
       ELSE /\ files' = Remove(files, tk.key)
            /\ images' = CascadeImages(images, tk.key)
            /\ status' = CatchStatus(status, TableOf(tk.op), tk.key, "FileGone", clock)
            /\ task' = [task EXCEPT ![t] = Failed(tk, status, "FileGone")]
  /\ UNCHANGED <<disk, nextKey, clock, env>>

\* fs.readFile(originalFile.filePath)
RunRead(t) ==
  LET tk == task[t] IN
  /\ tk.op \in {"truncate", "convert"}
  /\ tk.pc = "read"
  /\ IF FileExists(disk, tk.row.filePath)
       THEN /\ task' = [task EXCEPT ![t] = [tk EXCEPT !.pc = "load", !.bytes = disk[tk.row.filePath]]]
            /\ UNCHANGED status
       ELSE /\ status' = CatchStatus(status, TableOf(tk.op), tk.key, "ReadError", clock)
            /\ task' = [task EXCEPT ![t] = Failed(tk, status, "ReadError")]
  /\ UNCHANGED <<disk, files, images, nextKey, clock, env>>

\* a status update of a run and what follows it: the update throws when the row is gone
Advance(t, tk, u, next) ==
  /\ status' = IF HasStatus(status, TableOf(tk.op), tk.key)
                 THEN UpdateStatus(status, TableOf(tk.op), tk.key, u)
                 ELSE status
  /\ task' = [task EXCEPT ![t] = IF HasStatus(status, TableOf(tk.op), tk.key)
                                   THEN next
                                   ELSE Failed(tk, status, "StatusNotFound")]

\* a step of a run throws e
Throw(t, tk, e) ==
  /\ status' = CatchStatus(status, TableOf(tk.op), tk.key, e, clock)
  /\ task' = [task EXCEPT ![t] = Failed(tk, status, e)]

(* ------------------------ truncation pipeline -------------------------- *)
\* processPdfTruncation(originalKey, request)
TruncStart(t, k, req) == RunStart(t, "truncate", k, req)

\* POST /truncate/:key
TruncateRoute(t, k, req) == Route(t, "truncate", k, req)

\* PDFDocument.load, getPageIndices, progress 25
TruncLoad(t) ==
  LET tk == [task[t] EXCEPT !.totalPages = Len(task[t].bytes)]
      r == PdfGetPageIndices(tk.req, tk.totalPages)
  IN /\ tk.op = "truncate"
     /\ tk.pc = "load"
     /\ IF r.ok
          THEN Advance(t, tk, ProgressUpdate(25), [tk EXCEPT !.pc = "copy", !.idx = r.idx])
          ELSE Throw(t, tk, "Validation")
     /\ UNCHANGED <<disk, files, images, nextKey, clock, env>>

\* PDFDocument.create, copyPages, addPage, progress 75
TruncCopy(t) ==
  LET tk == task[t] IN
  /\ tk.op = "truncate"
  /\ tk.pc = "copy"
  /\ Advance(t, tk, ProgressUpdate(75),
             [tk EXCEPT !.pc = "save", !.newDoc = CopyPages(tk.bytes, tk.idx)])
  /\ UNCHANGED <<disk, files, images, nextKey, clock, env>>

\* the row storeFile inserts for the truncated document
TruncatedRow(path, bytes) == [filePath |-> path, size |-> Len(bytes)]

\* save, generateKey, fs.writeFile, storeFile, status completed, return
TruncPersist(t, writeOk) ==
  LET tk == [task[t] EXCEPT !.outKey = nextKey] IN
  /\ tk.op = "truncate"
  /\ tk.pc = "save"
  /\ nextKey <= MaxKeys
  /\ nextKey' = nextKey + 1
  /\ IF writeOk
       THEN /\ disk' = Put(disk, tk.outKey, tk.newDoc)
            /\ files' = Put(files, tk.outKey, TruncatedRow(tk.outKey, tk.newDoc))
            /\ Advance(t, tk, CompletedUpdate(clock), [tk EXCEPT !.pc = "done"])
       ELSE /\ Throw(t, tk, "WriteError")
            /\ UNCHANGED <<disk, files>>
  /\ UNCHANGED <<images, clock, env>>

(* --------------------- image conversion pipeline ----------------------- *)
\* processPdfToImages(originalKey, request)
ConvStart(t, k, req) == RunStart(t, "convert", k, req)

\* POST /convert/:key
ConvertRoute(t, k, req) == Route(t, "convert", k, req)

\* PDFDocument.load, getPageIndices, progress 25, then ensureDirectoryExists
ConvLoad(t) ==
  LET tk == [task[t] EXCEPT !.totalPages = Len(task[t].bytes)]
      r == ImgGetPageIndices(tk.req, tk.totalPages)
  IN /\ tk.op = "convert"
     /\ tk.pc = "load"
     /\ IF r.ok
          THEN Advance(t, tk, ProgressUpdate(25), [tk EXCEPT !.pc = "mkdir", !.idx = r.idx])
          ELSE Throw(t, tk, "Validation")
     /\ UNCHANGED <<disk, files, images, nextKey, clock, env>>

\* pagesToConvert.map: each conversion takes its key and starts pdfToCairo
Conversions(idx, firstKey) ==
  [i \in 1..Len(idx) |-> [page |-> idx[i] + 1, key |-> firstKey + i - 1, st |-> "render"]]

\* the conversions are started, progress 75, then the run waits in Promise.all
ConvLaunch(t) ==
  LET tk == [task[t] EXCEPT !.conv = Conversions(task[t].idx, nextKey)]
      m == Len(tk.idx)
  IN /\ tk.op = "convert"
     /\ tk.pc = "mkdir"
     /\ nextKey + m - 1 <= MaxKeys
     /\ nextKey' = nextKey + m
     /\ Advance(t, tk, ProgressUpdate(75), [tk EXCEPT !.pc = "join"])
     /\ UNCHANGED <<disk, files, images, clock, env>>

\* Promise.all of no conversion resolves by itself: status completed, return
ConvJoinEmpty(t) ==
  LET tk == task[t] IN
  /\ tk.op = "convert"
  /\ tk.pc = "join"
  /\ tk.conv = <<>>
  /\ Advance(t, tk, CompletedUpdate(clock), [tk EXCEPT !.pc = "done"])
  /\ UNCHANGED <<disk, files, images, nextKey, clock, env>>

\* the StoredImage object the conversion builds: it names no parent document
StoredImage(tk, c, size) ==
  [key |-> c.key, originalPdfKey |-> NoKey, filePath |-> c.key, size |-> size,
   pageNumber |-> c.page, format |-> FormatOf(tk.req)]

\* fault: a rejected conversion is swallowed and the run keeps waiting
ConvRejectSwallowed(t, tk) ==
  /\ task' = [task EXCEPT ![t] = tk]
  /\ UNCHANGED status

\* a conversion rejects: Promise.all rejects with it if the run still waits
ConvReject(t, tk) ==
  IF tk.pc = "join" THEN Throw(t, tk, "Processing")
  ELSE /\ task' = [task EXCEPT ![t] = tk]
       /\ UNCHANGED status

\* pdfToCairo of one page ends
ConvRender(t, i, renderOk) ==
  LET tk == task[t] IN
  /\ i \in 1..Len(tk.conv)
  /\ tk.conv[i].st = "render"
  /\ renderOk => FileExists(disk, tk.row.filePath)
  /\ IF renderOk
       THEN /\ disk' = Put(disk, tk.conv[i].key, <<tk.conv[i].page>>)
            /\ task' = [task EXCEPT ![t].conv[i].st = "stat"]
            /\ UNCHANGED status
       ELSE /\ ConvReject(t, [tk EXCEPT !.conv[i].st = "failed"])
            /\ UNCHANGED disk
  /\ UNCHANGED <<files, images, nextKey, clock, env>>

\* getFileStats of the image, storeImage, and, when it was the last one, the
\* end of Promise.all: status completed, return
ConvStore(t, i) ==
  LET tk == task[t]
      c == tk.conv[i]
      img == StoredImage(tk, c, Len(disk[c.key]))
      stored == [tk EXCEPT !.conv[i].st = "stored"]
  IN /\ i \in 1..Len(tk.conv)
     /\ c.st = "stat"
     /\ IF FileExists(disk, c.key) /\ StoreImageAccepts(files, images, img)
          THEN /\ images' = Put(images, c.key, ImageRow(img))
               /\ IF tk.pc = "join" /\ \A j \in 1..Len(tk.conv) : stored.conv[j].st = "stored"
                    THEN Advance(t, stored, CompletedUpdate(clock), [stored EXCEPT !.pc = "done"])
                    ELSE /\ task' = [task EXCEPT ![t] = stored]
                         /\ UNCHANGED status
          ELSE /\ ConvReject(t, [tk EXCEPT !.conv[i].st = "failed"])
               /\ UNCHANGED images
     /\ UNCHANGED <<disk, files, nextKey, clock, env>>

(* -------------------------- getFile, getImage -------------------------- *)
\* getFile / getImage up to fs.access: NotFound when there is no row
GetStart(t, op, k) ==
  LET tbl == IF op = "getFile" THEN files ELSE images
      tk == [IdleTask EXCEPT !.op = op, !.key = k]
  IN /\ Begin(t)
     /\ task' = [task EXCEPT ![t] =
                   IF k \in DOMAIN tbl
                     THEN [tk EXCEPT !.pc = "gaccess",
                                     !.row = [filePath |-> tbl[k].filePath, size |-> tbl[k].size]]
                     ELSE [tk EXCEPT !.pc = "done", !.raised = "FileNotFound"]]
     /\ UNCHANGED <<disk, files, images, status, nextKey, env>>

GetFileStart(t, k) == GetStart(t, "getFile", k)

GetImageStart(t, k) == GetStart(t, "getImage", k)

\* fault: getFile returns the row without looking at the disk
GetFileReturn(t) ==
  /\ task[t].op = "getFile"
  /\ task[t].pc = "gaccess"
  /\ task' = [task EXCEPT ![t] = [task[t] EXCEPT !.pc = "done", !.outKey = task[t].key]]
  /\ UNCHANGED <<disk, files, images, status, nextKey, clock, uploads, removals, last, tracker, mem>>

\* getFile after fs.access: return the row, or delete the stale row and throw
GetFileAccess(t) ==
  LET tk == task[t] IN
  /\ tk.op = "getFile"
  /\ tk.pc = "gaccess"
  /\ IF FileExists(disk, tk.row.filePath)
       THEN /\ task' = [task EXCEPT ![t] = [tk EXCEPT !.pc = "done", !.outKey = tk.key]]
            /\ UNCHANGED <<files, images>>
       ELSE /\ files' = Remove(files, tk.key)
            /\ images' = CascadeImages(images, tk.key)
            /\ task' = [task EXCEPT ![t] = [tk EXCEPT !.pc = "done", !.raised = "FileGone"]]
  /\ UNCHANGED <<disk, status, nextKey, clock, env>>

\* getImage after fs.access
GetImageAccess(t) ==
  LET tk == task[t] IN
  /\ tk.op = "getImage"
  /\ tk.pc = "gaccess"
  /\ IF FileExists(disk, tk.row.filePath)
       THEN /\ task' = [task EXCEPT ![t] = [tk EXCEPT !.pc = "done", !.outKey = tk.key]]
            /\ UNCHANGED images
       ELSE /\ images' = Remove(images, tk.key)
            /\ task' = [task EXCEPT ![t] = [tk EXCEPT !.pc = "done", !.raised = "FileGone"]]
  /\ UNCHANGED <<disk, files, status, nextKey, clock, env>>

(* ----------------------------- deleteFile ------------------------------ *)
\* getImagesByOriginalKey(key), then getFile(key) up to its fs.access
DeleteStart(t, k) ==
  LET tk == [IdleTask EXCEPT !.op = "deleteFile", !.key = k,
                             !.imgs = GetImagesByOriginalKey(images, k)]
  IN /\ Begin(t)
     /\ task' = [task EXCEPT ![t] =
                   IF k \in DOMAIN files
                     THEN [tk EXCEPT !.pc = "daccess", !.row = files[k]]
                     ELSE [tk EXCEPT !.pc = "done", !.raised = "FileNotFound"]]
     /\ UNCHANGED <<disk, files, images, status, nextKey, env>>

\* getFile returns; imagesToDelete.map starts every image unlink
DeleteAccess(t) ==
  LET tk == task[t] IN
  /\ tk.op = "deleteFile"
  /\ tk.pc = "daccess"
  /\ IF FileExists(disk, tk.row.filePath)
       THEN /\ task' = [task EXCEPT ![t] = [tk EXCEPT
                           !.pc = IF tk.imgs = {} THEN "dfile" ELSE "dimages",
                           !.pending = tk.imgs]]
            /\ UNCHANGED <<files, images>>
       ELSE /\ files' = Remove(files, tk.key)
            /\ images' = CascadeImages(images, tk.key)
            /\ task' = [task EXCEPT ![t] = [tk EXCEPT !.pc = "done", !.raised = "FileGone"]]
  /\ UNCHANGED <<disk, status, nextKey, clock, env>>

\* one FileUtils.deleteFile(image.filePath) of the Promise.all settles; a failure
\* other than ENOENT rejects Promise.all and deleteFile throws AppError
DeleteImageFile(t, p, unlinkOk) ==
  LET tk == task[t]
      rest == tk.pending \ {p}
  IN /\ p \in tk.pending
     /\ unlinkOk \/ FileExists(disk, p)
     /\ IF unlinkOk
          THEN /\ disk' = Unlink(disk, p)
               /\ task' = [task EXCEPT ![t] = [tk EXCEPT !.pending = rest,
                              !.pc = IF tk.pc = "dimages" /\ rest = {} THEN "dfile" ELSE tk.pc]]
          ELSE /\ disk' = disk
               /\ task' = [task EXCEPT ![t] = [tk EXCEPT !.pending = rest,
                              !.pc = IF tk.pc = "dimages" THEN "done" ELSE tk.pc,
                              !.raised = IF tk.pc = "dimages" THEN "DeleteError" ELSE tk.raised]]
     /\ UNCHANGED <<files, images, status, nextKey, clock, env>>

\* the rows deleteFile removes: files (with the cascade) and both status tables
DeleteRows(t) ==
  /\ files' = Remove(files, task[t].key)
  /\ images' = CascadeImages(images, task[t].key)
  /\ status' = [pdf |-> Remove(status.pdf, task[t].key), img |-> Remove(status.img, task[t].key)]

\* unlink of the document's file, then the three DELETE statements
DeleteDocFile(t, unlinkOk) ==
  LET tk == task[t] IN
  /\ tk.op = "deleteFile"
  /\ tk.pc = "dfile"
  /\ unlinkOk \/ FileExists(disk, tk.row.filePath)
  /\ IF unlinkOk
       THEN /\ disk' = Unlink(disk, tk.row.filePath)
            /\ DeleteRows(t)
            /\ task' = [task EXCEPT ![t].pc = "done"]
       ELSE /\ task' = [task EXCEPT ![t] = [tk EXCEPT !.pc = "done", !.raised = "DeleteError"]]
            /\ UNCHANGED <<disk, files, images, status>>
  /\ UNCHANGED <<nextKey, clock, env>>

(* --------------------- deleteImage, deleteImagesByOriginalKey ---------- *)
\* deleteImage(key) up to the fs.access of its getImage: NotFound when there is no row
DeleteImageStart(t, k) ==
  LET tk == [IdleTask EXCEPT !.op = "deleteImage", !.key = k] IN
  /\ Begin(t)
  /\ task' = [task EXCEPT ![t] =
                IF k \in DOMAIN images
                  THEN [tk EXCEPT !.pc = "dwait", !.imgs = {k}, !.checking = {k}]
                  ELSE [tk EXCEPT !.pc = "done", !.raised = "FileNotFound"]]
  /\ UNCHANGED <<disk, files, images, status, nextKey, env>>

\* deleteImagesByOriginalKey(originalKey): getImagesByOriginalKey, then map starts
\* a deleteImage for every image, each up to the fs.access of its getImage;
\* Promise.all of no call resolves by itself
DeleteImagesStart(t, k) ==
  LET tk == [IdleTask EXCEPT !.op = "deleteImages", !.key = k,
                             !.imgs = GetImagesByOriginalKey(images, k)]
  IN /\ Begin(t)
     /\ task' = [task EXCEPT ![t] =
                   IF tk.imgs = {}
                     THEN [tk EXCEPT !.pc = "done"]
                     ELSE [tk EXCEPT !.pc = "dwait", !.checking = tk.imgs]]
     /\ UNCHANGED <<disk, files, images, status, nextKey, env>>

\* a deleteImage of the request fails with e: the request throws it if it still waits
ImageDeleteFails(tk, e) ==
  IF tk.pc = "dwait" THEN [tk EXCEPT !.pc = "done", !.raised = e] ELSE tk

\* the fs.access of getImage(p) settles (an image's path is named by its key):
\* a stale row is deleted and NotFound thrown, else the unlink is started
ImageAccess(t, p) ==
  LET tk == [task[t] EXCEPT !.checking = @ \ {p}] IN
  /\ tk.op \in {"deleteImage", "deleteImages"}
  /\ p \in task[t].checking
  /\ IF FileExists(disk, p)
       THEN /\ task' = [task EXCEPT ![t] = [tk EXCEPT !.unlinking = @ \cup {p}]]
            /\ UNCHANGED images
       ELSE /\ images' = Remove(images, p)
            /\ task' = [task EXCEPT ![t] = ImageDeleteFails(tk, "FileGone")]
  /\ UNCHANGED <<disk, files, status, nextKey, clock, env>>

\* FileUtils.deleteFile(image.filePath) settles, then DELETE FROM images; the
\* request returns when its last deleteImage has ended
ImageUnlink(t, p, unlinkOk) ==
  LET tk == [task[t] EXCEPT !.unlinking = @ \ {p}] IN
  /\ tk.op \in {"deleteImage", "deleteImages"}
  /\ p \in task[t].unlinking
  /\ unlinkOk \/ FileExists(disk, p)
  /\ IF unlinkOk
       THEN /\ disk' = Unlink(disk, p)
            /\ images' = Remove(images, p)
            /\ task' = [task EXCEPT ![t] =
                          IF tk.pc = "dwait" /\ tk.checking = {} /\ tk.unlinking = {}
                            THEN [tk EXCEPT !.pc = "done"] ELSE tk]
       ELSE /\ task' = [task EXCEPT ![t] = ImageDeleteFails(tk, "DeleteError")]
            /\ UNCHANGED <<disk, images>>
  /\ UNCHANGED <<files, status, nextKey, clock, env>>

(* ----------------------- direct status calls ------------------------- *)
NoStatus == [status |-> "none", progress |-> 0, error |-> NoError,
             createdAt |-> NoTime, completedAt |-> NoTime]

(* ------------------------- FileUtils.deleteFile ------------------------ *)
\* the outcome of fs.unlink: ENOENT exactly when the path does not exist
UnlinkCodes(d, path) == IF FileExists(d, path) THEN {"none", "EACCES"} ELSE {"ENOENT"}

\* fault: every error of fs.unlink is thrown
AnyCodeRaises(code) == code # "none"

\* FileUtils.deleteFile throws AppError unless the code is ENOENT
DeleteFileRaises(code) == code \notin {"none", "ENOENT"}

\* FileUtils.deleteFile(filePath) called by itself
FsDelete(p, code) ==
  /\ code \in UnlinkCodes(disk, p)
  /\ disk' = IF code = "none" THEN Unlink(disk, p) ELSE disk
  /\ last' = [op |-> "unlink", table |-> code, key |-> p, before |-> NoStatus,
              update |-> NoStatus, result |-> NoStatus,
              raised |-> IF DeleteFileRaises(code) THEN "FileDeleteError" ELSE NoError]
  /\ UNCHANGED <<files, images, status, nextKey, clock, task, uploads, removals, tracker, mem>>

\* setProcessingStatus(key, status) / setImageProcessingStatus(key, status)
SetProcessingStatus(table, k, s) ==
  /\ clock < MaxOps
  /\ clock' = clock + 1
  /\ status' = SetStatus(status, table, k, s)
  /\ last' = [op |-> "set", table |-> table, key |-> k, before |-> NoStatus,
              update |-> s, result |-> s, raised |-> NoError]
  /\ UNCHANGED <<disk, files, images, nextKey, task, uploads, removals, tracker, mem>>

\* fault: the INSERT replaces the row of an existing key
AnyKey(fs, k) == TRUE

\* the INSERT of storeFile succeeds when the key is new (key TEXT PRIMARY KEY)
StoreFileAccepts(fs, k) == k \notin DOMAIN fs

\* storeFile(key, ..., filePath, size, ...) with a key of the caller's choice:
\* on a key that has a row stmt.run throws the constraint error of the database
StoreFile(k, n) ==
  /\ clock < MaxOps
  /\ clock' = clock + 1
  /\ files' = IF StoreFileAccepts(files, k)
                THEN Put(files, k, [filePath |-> k, size |-> n])
                ELSE files
  /\ last' = [op |-> "storeFile", table |-> "files", key |-> k, before |-> NoStatus,
              update |-> NoStatus, result |-> NoStatus,
              raised |-> IF StoreFileAccepts(files, k) THEN NoError ELSE "SqliteConstraint"]
  /\ UNCHANGED <<disk, images, status, nextKey, task, uploads, removals, tracker, mem>>

\* getProcessingStatus(key) / getImageProcessingStatus(key)
GetProcessingStatus(table, k) ==
  /\ clock < MaxOps
  /\ clock' = clock + 1
  /\ last' = [op |-> "get", table |-> table, key |-> k, before |-> NoStatus,
              update |-> NoStatus,
              result |-> IF HasStatus(status, table, k) THEN status[table][k] ELSE NoStatus,
              raised |-> IF HasStatus(status, table, k) THEN NoError ELSE "StatusNotFound"]
  /\ UNCHANGED <<disk, files, images, status, nextKey, task, uploads, removals, tracker, mem>>

\* fault: an update for a key without row inserts one
UpsertProcessingStatus(table, k, u) ==
  /\ clock < MaxOps
  /\ clock' = clock + 1
  /\ status' = SetStatus(status, table, k,
                         MergeStatus(IF HasStatus(status, table, k)
                                       THEN status[table][k] ELSE NoStatus, u))
  /\ last' = [op |-> "update", table |-> table, key |-> k, before |-> NoStatus,
              update |-> u, result |-> NoStatus, raised |-> NoError]
  /\ UNCHANGED <<disk, files, images, nextKey, task, uploads, removals, tracker, mem>>

\* updateProcessingStatus(key, updates) / updateImageProcessingStatus(key, updates)
UpdateProcessingStatus(table, k, u) ==
  /\ clock < MaxOps
  /\ clock' = clock + 1
  /\ IF HasStatus(status, table, k)
       THEN /\ status' = UpdateStatus(status, table, k, u)
            /\ last' = [op |-> "update", table |-> table, key |-> k,
                        before |-> status[table][k], update |-> u,
                        result |-> UpdateResult(status, table, k, u), raised |-> NoError]
       ELSE /\ status' = status
            /\ last' = [op |-> "update", table |-> table, key |-> k, before |-> NoStatus,
                        update |-> u, result |-> NoStatus, raised |-> "StatusNotFound"]
  /\ UNCHANGED <<disk, files, images, nextKey, task, uploads, removals, tracker, mem>>

\* the status objects and partial updates of the store specification
Statuses ==
  [status : {"processing", "error"}, progress : {0, 75}, error : {NoError, "boom"},
   createdAt : {1}, completedAt : {NoTime, 1}]

Updates ==
  {[progress |-> 50], ProgressUpdate(25), CompletedUpdate(2),
   [status |-> "error", error |-> "late", completedAt |-> 2],
   [createdAt |-> 2]}

(* --------------------------- specification ----------------------------- *)
(* ------------------------ UploadProgressService ------------------------ *)

UploadIds == 1..MaxUploadIds

\* slots of the upload handler: two upload requests may overlap
Requests == {1, 2}

\* Content-Length values of upload requests
Totals == 0..MaxBytes

\* messages of stream and multer errors
Messages == {"aborted", "LIMIT_FILE_SIZE"}

NoProgress == [status |-> "undefined", total |-> 0, loaded |-> 0, percentage |-> 0,
               error |-> NoError]

\* a percentage that truncates instead of rounding
PercentageFloor(loadedSize, total) ==
  IF total > 0 THEN (100 * loadedSize) \div total ELSE 0

\* Math.round((loadedSize / total) * 100), halves rounded up; 0 when total is 0
Percentage(loadedSize, total) ==
  IF total > 0 THEN (200 * loadedSize + total) \div (2 * total) ELSE 0

\* setCleanupTimer: the old timer is cleared, a new one fires after one hour
SetCleanupTimer(timers, uploadId) == Put(timers, uploadId, HourTicks)

\* the timer a handle of cleanupTimers stands for
TimerOf(timers, uploadId) == [id |-> uploadId, due |-> timers[uploadId]]

\* clearTimeout(this.cleanupTimers.get(uploadId)) when the map has the id
ClearTimeout(ts, timers, uploadId) ==
  IF uploadId \in DOMAIN timers THEN ts \ {TimerOf(timers, uploadId)} ELSE ts

\* setTimeout(callback, 3600 * 1000)
SetTimeout(ts, uploadId) == ts \cup {[id |-> uploadId, due |-> HourTicks]}

\* a setCleanupTimer that leaves the old timer pending
ScheduledUncleared(ts, timers, uploadId) == SetTimeout(ts, uploadId)

\* the pending timers after setCleanupTimer(uploadId)
Scheduled(ts, timers, uploadId) == SetTimeout(ClearTimeout(ts, timers, uploadId), uploadId)

\* the session initiateUpload registers
PendingProgress ==
  [status |-> "pending", total |-> 0, loaded |-> 0, percentage |-> 0, error |-> NoError]

\* the session startUpload writes: a fresh object, the old fields are dropped
UploadingProgress(totalSize) ==
  [status |-> "uploading", total |-> totalSize, loaded |-> 0, percentage |-> 0,
   error |-> NoError]

\* an update that is applied in every state of the session
UpdateAnyState(pm, uploadId, loadedSize) ==
  IF uploadId \in DOMAIN pm
  THEN Put(pm, uploadId, [pm[uploadId] EXCEPT
                            !.loaded = loadedSize,
                            !.percentage = Percentage(loadedSize, pm[uploadId].total)])
  ELSE pm

\* updateProgress on the map: only a session in state uploading is touched
UpdateOn(pm, uploadId, loadedSize) ==
  IF uploadId \in DOMAIN pm /\ pm[uploadId].status = "uploading"
  THEN Put(pm, uploadId, [pm[uploadId] EXCEPT
                            !.loaded = loadedSize,
                            !.percentage = Percentage(loadedSize, pm[uploadId].total)])
  ELSE pm

\* completeUpload on the map: {...progress, status, loaded: total, percentage: 100}
CompleteOn(pm, uploadId) ==
  IF uploadId \in DOMAIN pm
  THEN Put(pm, uploadId, [pm[uploadId] EXCEPT
                            !.status = "completed",
                            !.loaded = pm[uploadId].total,
                            !.percentage = 100])
  ELSE pm

\* a failure that also zeroes the byte counts
FailResets(pm, uploadId, error) ==
  IF uploadId \in DOMAIN pm
  THEN Put(pm, uploadId, [pm[uploadId] EXCEPT !.status = "error", !.error = error,
                                               !.loaded = 0, !.percentage = 0])
  ELSE pm

\* failUpload on the map: {...progress, status: 'error', error}
FailOn(pm, uploadId, error) ==
  IF uploadId \in DOMAIN pm
  THEN Put(pm, uploadId, [pm[uploadId] EXCEPT !.status = "error", !.error = error])
  ELSE pm

\* a completion that leaves the expiry timer as it is
TimerKept(pm, timers, uploadId) == timers

\* the timers after completeUpload or failUpload: reset only for a registered session
TimerOn(pm, timers, uploadId) ==
  IF uploadId \in DOMAIN pm THEN SetCleanupTimer(timers, uploadId) ELSE timers

\* the pending timers after completeUpload or failUpload
TimeoutsOn(pm, ts, timers, uploadId) ==
  IF uploadId \in DOMAIN pm THEN Scheduled(ts, timers, uploadId) ELSE ts

\* a direct call to the tracker: its name, its id and what it raised
TrackerCall(name, uploadId, result, raised) ==
  /\ calls < MaxCalls
  /\ calls' = calls + 1
  /\ last' = [op |-> name, table |-> "tracker", key |-> uploadId, before |-> NoStatus,
              update |-> NoStatus, result |-> result, raised |-> raised]

InitiateUpload ==
  /\ nextUploadId <= MaxUploadIds
  /\ TrackerCall("initiateUpload", nextUploadId, PendingProgress, NoError)
  /\ progressMap' = Put(progressMap, nextUploadId, PendingProgress)
  /\ cleanupTimers' = SetCleanupTimer(cleanupTimers, nextUploadId)
  /\ timeouts' = Scheduled(timeouts, cleanupTimers, nextUploadId)
  /\ nextUploadId' = nextUploadId + 1
  /\ UNCHANGED <<store, streams>>

\* a start that merges into the old session and registers an unknown id
StartUploadMerge(uploadId, totalSize) ==
  /\ TrackerCall("startUpload", uploadId, NoProgress, NoError)
  /\ progressMap' =
       Put(progressMap, uploadId,
           IF uploadId \in DOMAIN progressMap
           THEN [progressMap[uploadId] EXCEPT !.status = "uploading", !.total = totalSize]
           ELSE UploadingProgress(totalSize))
  /\ cleanupTimers' = SetCleanupTimer(cleanupTimers, uploadId)
  /\ timeouts' = Scheduled(timeouts, cleanupTimers, uploadId)
  /\ UNCHANGED <<store, nextUploadId, streams>>

StartUpload(uploadId, totalSize) ==
  /\ IF uploadId \in DOMAIN progressMap
     THEN /\ TrackerCall("startUpload", uploadId, NoProgress, NoError)
          /\ progressMap' = Put(progressMap, uploadId, UploadingProgress(totalSize))
          /\ cleanupTimers' = SetCleanupTimer(cleanupTimers, uploadId)
          /\ timeouts' = Scheduled(timeouts, cleanupTimers, uploadId)
     ELSE /\ TrackerCall("startUpload", uploadId, NoProgress, "UploadIdNotFound")
          /\ UNCHANGED <<progressMap, cleanupTimers, timeouts>>
  /\ UNCHANGED <<store, nextUploadId, streams>>

\* an update that also restarts the expiry timer of the session it is applied to
UpdateProgressTouch(uploadId, loadedSize) ==
  /\ TrackerCall("updateProgress", uploadId, NoProgress, NoError)
  /\ progressMap' = UpdateOn(progressMap, uploadId, loadedSize)
  /\ cleanupTimers' = TimerOn(progressMap, cleanupTimers, uploadId)
  /\ timeouts' = TimeoutsOn(progressMap, timeouts, cleanupTimers, uploadId)
  /\ UNCHANGED <<store, nextUploadId, streams>>

UpdateProgress(uploadId, loadedSize) ==
  /\ TrackerCall("updateProgress", uploadId, NoProgress, NoError)
  /\ progressMap' = UpdateOn(progressMap, uploadId, loadedSize)
  /\ UNCHANGED <<store, cleanupTimers, timeouts, nextUploadId, streams>>

CompleteUpload(uploadId) ==
  /\ TrackerCall("completeUpload", uploadId, NoProgress, NoError)
  /\ progressMap' = CompleteOn(progressMap, uploadId)
  /\ cleanupTimers' = TimerOn(progressMap, cleanupTimers, uploadId)
  /\ timeouts' = TimeoutsOn(progressMap, timeouts, cleanupTimers, uploadId)
  /\ UNCHANGED <<store, nextUploadId, streams>>

FailUpload(uploadId, error) ==
  /\ TrackerCall("failUpload", uploadId, NoProgress, NoError)
  /\ progressMap' = FailOn(progressMap, uploadId, error)
  /\ cleanupTimers' = TimerOn(progressMap, cleanupTimers, uploadId)
  /\ timeouts' = TimeoutsOn(progressMap, timeouts, cleanupTimers, uploadId)
  /\ UNCHANGED <<store, nextUploadId, streams>>

GetProgress(uploadId) ==
  /\ TrackerCall("getProgress", uploadId,
                 IF uploadId \in DOMAIN progressMap THEN progressMap[uploadId]
                 ELSE NoProgress,
                 NoError)
  /\ UNCHANGED <<store, progressMap, cleanupTimers, timeouts, nextUploadId, streams>>

\* a slot of the upload handler with no request in it
IdleStream == [pc |-> "idle", id |-> NoKey, total |-> 0, loaded |-> 0,
               ended |-> FALSE, called |-> FALSE, age |-> 0, raised |-> NoError]

\* the request of slot r is still being received or multer has not called back
Streaming(r) ==
  /\ streams[r].pc = "streaming"
  /\ ~(streams[r].ended /\ streams[r].called)

\* the server's requestTimeout (300 s by default in the Node of the image) closes
\* a request well before the hour of the expiry timer
RequestTimeoutTicks == HourTicks - 1

\* time passes: every pending timer comes one tick nearer; a due timer fires first,
\* and a request that has reached the request timeout is closed first
Tick ==
  /\ timeouts # {}
  /\ \A tm \in timeouts : tm.due > 0
  /\ \A r \in Requests : Streaming(r) => streams[r].age < RequestTimeoutTicks
  /\ timeouts' = {[tm EXCEPT !.due = @ - 1] : tm \in timeouts}
  /\ cleanupTimers' = [id \in DOMAIN cleanupTimers |-> cleanupTimers[id] - 1]
  /\ streams' = [r \in Requests |->
                   IF Streaming(r) THEN [streams[r] EXCEPT !.age = @ + 1]
                   ELSE streams[r]]
  /\ UNCHANGED <<store, last, progressMap, nextUploadId, calls>>

\* the callback of setCleanupTimer: the id leaves both maps
Expire(uploadId) ==
  /\ \E tm \in timeouts : /\ tm.id = uploadId
                          /\ tm.due = 0
                          /\ timeouts' = timeouts \ {tm}
  /\ progressMap' = Remove(progressMap, uploadId)
  /\ cleanupTimers' = Remove(cleanupTimers, uploadId)
  /\ UNCHANGED <<store, last, nextUploadId, calls, streams>>

(* ---------------- the in-memory StorageService beside the durable ------- *)

\* calls made to both stores in one behaviour
MaxPairCalls == 3

PairKeys == 1..2

\* what a call to the in-memory store returned or raised
MemOutcome(name, k, result, raised) ==
  [op |-> name, key |-> k, result |-> result, raised |-> raised]

\* what the same call to the durable store returned or raised
DurableOutcome(name, k, result, raised) ==
  [op |-> name, table |-> "pdf", key |-> k, before |-> NoStatus, update |-> NoStatus,
   result |-> result, raised |-> raised]

\* one call is made to both stores
PairCall ==
  /\ clock < MaxPairCalls
  /\ clock' = clock + 1

\* storeFile(key, ...) for a file multer has written: INSERT in the durable store,
\* Map.set in the in-memory one
PairStoreFile(k, n) ==
  LET row == [filePath |-> k, size |-> n] IN
  /\ PairCall
  /\ disk' = Put(disk, k, [i \in 1..n |-> i])
  /\ files' = IF StoreFileAccepts(files, k) THEN Put(files, k, row) ELSE files
  /\ last' = IF StoreFileAccepts(files, k)
               THEN DurableOutcome("storeFile", k, row, NoError)
               ELSE DurableOutcome("storeFile", k, NoRow, "SqliteConstraint")
  /\ memFiles' = Put(memFiles, k, row)
  /\ memLast' = MemOutcome("storeFile", k, row, NoError)
  /\ UNCHANGED <<images, status, nextKey, task, uploads, removals, tracker, memStatus>>

\* getFile(key): no row, a stale row (deleted, NotFound) or the row
GetFileOutcome(name, fs, k) ==
  IF k \notin DOMAIN fs THEN MemOutcome(name, k, NoRow, "FileNotFound")
  ELSE IF ~FileExists(disk, fs[k].filePath) THEN MemOutcome(name, k, NoRow, "FileGone")
  ELSE MemOutcome(name, k, fs[k], NoError)

PairGetFile(k) ==
  LET d == GetFileOutcome("getFile", files, k)
      m == GetFileOutcome("getFile", memFiles, k)
  IN /\ PairCall
     /\ files' = IF d.raised = "FileGone" THEN Remove(files, k) ELSE files
     /\ images' = IF d.raised = "FileGone" THEN CascadeImages(images, k) ELSE images
     /\ last' = DurableOutcome("getFile", k, d.result, d.raised)
     /\ memFiles' = IF m.raised = "FileGone" THEN Remove(memFiles, k) ELSE memFiles
     /\ memLast' = m
     /\ UNCHANGED <<disk, status, nextKey, task, uploads, removals, tracker, memStatus>>

\* deleteFile(key): the durable store goes through getFile first, the in-memory
\* one looks at its map only; FileUtils.deleteFile swallows ENOENT
PairDeleteFile(k, unlinkOk) ==
  LET d == GetFileOutcome("deleteFile", files, k)
      durableOk == d.raised = NoError /\ unlinkOk
      memHas == k \in DOMAIN memFiles
      memOk == memHas /\ (unlinkOk \/ ~FileExists(disk, memFiles[k].filePath))
  IN /\ PairCall
     /\ files' = IF d.raised = "FileGone" \/ durableOk THEN Remove(files, k) ELSE files
     /\ images' = IF d.raised = "FileGone" \/ durableOk THEN CascadeImages(images, k)
                  ELSE images
     /\ status' = IF durableOk
                    THEN [pdf |-> Remove(status.pdf, k), img |-> Remove(status.img, k)]
                    ELSE status
     /\ last' = DurableOutcome("deleteFile", k, NoRow,
                               IF d.raised # NoError THEN d.raised
                               ELSE IF unlinkOk THEN NoError ELSE "DeleteError")
     /\ memFiles' = IF memOk THEN Remove(memFiles, k) ELSE memFiles
     /\ memStatus' = IF memOk THEN Remove(memStatus, k) ELSE memStatus
     /\ memLast' = MemOutcome("deleteFile", k, NoRow,
                              IF ~memHas THEN "FileNotFound"
                              ELSE IF memOk THEN NoError ELSE "DeleteError")
     /\ disk' = IF durableOk \/ (memOk /\ unlinkOk) THEN Unlink(disk, k) ELSE disk
     /\ UNCHANGED <<nextKey, task, uploads, removals, tracker>>

\* setProcessingStatus(key, status): the upsert, and Map.set of the object
PairSetStatus(k, s) ==
  /\ PairCall
  /\ status' = SetStatus(status, "pdf", k, s)
  /\ last' = DurableOutcome("set", k, NoStatus, NoError)
  /\ memStatus' = Put(memStatus, k, s)
  /\ memLast' = MemOutcome("set", k, NoStatus, NoError)
  /\ UNCHANGED <<disk, files, images, nextKey, task, uploads, removals, tracker, memFiles>>

\* getProcessingStatus(key)
PairGetStatus(k) ==
  /\ PairCall
  /\ last' = IF HasStatus(status, "pdf", k)
               THEN DurableOutcome("get", k, status.pdf[k], NoError)
               ELSE DurableOutcome("get", k, NoStatus, "StatusNotFound")
  /\ memLast' = IF k \in DOMAIN memStatus
                  THEN MemOutcome("get", k, memStatus[k], NoError)
                  ELSE MemOutcome("get", k, NoStatus, "StatusNotFound")
  /\ UNCHANGED <<disk, files, images, status, nextKey, task, uploads, removals, tracker,
                 memFiles, memStatus>>

\* updateProcessingStatus(key, updates): read, merge, write back, return the merge
PairUpdateStatus(k, u) ==
  /\ PairCall
  /\ IF HasStatus(status, "pdf", k)
       THEN /\ status' = UpdateStatus(status, "pdf", k, u)
            /\ last' = DurableOutcome("update", k, UpdateResult(status, "pdf", k, u), NoError)
       ELSE /\ status' = status
            /\ last' = DurableOutcome("update", k, NoStatus, "StatusNotFound")
  /\ IF k \in DOMAIN memStatus
       THEN /\ memStatus' = Put(memStatus, k, MergeStatus(memStatus[k], u))
            /\ memLast' = MemOutcome("update", k, MergeStatus(memStatus[k], u), NoError)
       ELSE /\ memStatus' = memStatus
            /\ memLast' = MemOutcome("update", k, NoStatus, "StatusNotFound")
  /\ UNCHANGED <<disk, files, images, nextKey, task, uploads, removals, tracker, memFiles>>

(* ----------------------- handleUploadWithProgress ----------------------- *)

\* the request of slot r arrives; slots are taken in order
Arrives(r) ==
  /\ streams[r].pc = "idle"
  /\ \A q \in Requests : q < r => streams[q].pc # "idle"

\* a request without X-Upload-ID or without Content-Length: next(error), the
\* tracker is not called
HandlerRefuse(r, raised) ==
  /\ Arrives(r)
  /\ streams' = [streams EXCEPT ![r] = [IdleStream EXCEPT !.pc = "rejected",
                                                         !.raised = raised]]
  /\ UNCHANGED <<store, last, progressMap, cleanupTimers, timeouts, nextUploadId, calls>>

\* a request with both headers: startUpload(uploadId, parseInt(contentLength)); if
\* it throws, next(ValidationError); else the listeners are registered and multer
\* starts reading
HandlerAccept(r, uploadId, total) ==
  /\ Arrives(r)
  /\ IF uploadId \in DOMAIN progressMap
     THEN /\ progressMap' = Put(progressMap, uploadId, UploadingProgress(total))
          /\ cleanupTimers' = SetCleanupTimer(cleanupTimers, uploadId)
          /\ timeouts' = Scheduled(timeouts, cleanupTimers, uploadId)
          /\ streams' = [streams EXCEPT ![r] = [IdleStream EXCEPT !.pc = "streaming",
                                                                 !.id = uploadId,
                                                                 !.total = total]]
     ELSE /\ streams' = [streams EXCEPT ![r] = [IdleStream EXCEPT !.pc = "rejected",
                                                                 !.id = uploadId,
                                                                 !.raised = "Validation"]]
          /\ UNCHANGED <<progressMap, cleanupTimers, timeouts>>
  /\ UNCHANGED <<store, last, nextUploadId, calls>>

\* req.on('data'): loaded += chunk.length; updateProgress(uploadId, loaded)
StreamData(r, n) ==
  /\ streams[r].pc = "streaming"
  /\ ~streams[r].ended
  /\ streams[r].loaded + n <= streams[r].total
  /\ streams' = [streams EXCEPT ![r].loaded = @ + n]
  /\ progressMap' = UpdateOn(progressMap, streams[r].id, streams[r].loaded + n)
  /\ UNCHANGED <<store, last, cleanupTimers, timeouts, nextUploadId, calls>>

\* req.on('end'), once the whole body has been read: completeUpload(uploadId)
StreamEnd(r) ==
  /\ streams[r].pc = "streaming"
  /\ ~streams[r].ended
  /\ streams[r].loaded = streams[r].total
  /\ streams' = [streams EXCEPT ![r].ended = TRUE]
  /\ progressMap' = CompleteOn(progressMap, streams[r].id)
  /\ cleanupTimers' = TimerOn(progressMap, cleanupTimers, streams[r].id)
  /\ timeouts' = TimeoutsOn(progressMap, timeouts, cleanupTimers, streams[r].id)
  /\ UNCHANGED <<store, last, nextUploadId, calls>>

\* a stream error that is logged and not passed to the tracker
StreamErrorLogged(r, message) ==
  /\ streams[r].pc = "streaming"
  /\ ~streams[r].ended
  /\ streams' = [streams EXCEPT ![r].ended = TRUE, ![r].raised = message]
  /\ UNCHANGED <<store, last, progressMap, cleanupTimers, timeouts, nextUploadId, calls>>

\* req.on('error'): failUpload(uploadId, err.message)
StreamError(r, message) ==
  /\ streams[r].pc = "streaming"
  /\ ~streams[r].ended
  /\ streams' = [streams EXCEPT ![r].ended = TRUE, ![r].raised = message]
  /\ progressMap' = FailOn(progressMap, streams[r].id, message)
  /\ cleanupTimers' = TimerOn(progressMap, cleanupTimers, streams[r].id)
  /\ timeouts' = TimeoutsOn(progressMap, timeouts, cleanupTimers, streams[r].id)
  /\ UNCHANGED <<store, last, nextUploadId, calls>>

\* the callback of multerUpload.single('pdf') with an error (file filter, limits,
\* disk storage), before or after the stream's end: failUpload, next(err)
MulterError(r, message) ==
  /\ streams[r].pc = "streaming"
  /\ ~streams[r].called
  /\ streams' = [streams EXCEPT ![r].called = TRUE, ![r].raised = message]
  /\ progressMap' = FailOn(progressMap, streams[r].id, message)
  /\ cleanupTimers' = TimerOn(progressMap, cleanupTimers, streams[r].id)
  /\ timeouts' = TimeoutsOn(progressMap, timeouts, cleanupTimers, streams[r].id)
  /\ UNCHANGED <<store, last, nextUploadId, calls>>

\* the callback of multer without an error, once the body has been read: next()
MulterDone(r) ==
  /\ streams[r].pc = "streaming"
  /\ ~streams[r].called
  /\ streams[r].loaded = streams[r].total
  /\ streams[r].raised = NoError
  /\ streams' = [streams EXCEPT ![r].called = TRUE]
  /\ UNCHANGED <<store, last, progressMap, cleanupTimers, timeouts, nextUploadId, calls>>

Init ==
  /\ disk = EmptyTable
  /\ files = EmptyTable
  /\ images = EmptyTable
  /\ status = [pdf |-> EmptyTable, img |-> EmptyTable]
  /\ nextKey = 1
  /\ clock = 0
  /\ task = [t \in Tasks |-> IdleTask]
  /\ uploads = 0
  /\ removals = 0
  /\ last = [op |-> "none", table |-> "none", key |-> NoKey, before |-> NoStatus,
             update |-> NoStatus, result |-> NoStatus, raised |-> NoError]
  /\ progressMap = EmptyTable
  /\ cleanupTimers = EmptyTable
  /\ timeouts = {}
  /\ nextUploadId = 1
  /\ calls = 0
  /\ streams = [r \in Requests |-> IdleStream]
  /\ memFiles = EmptyTable
  /\ memStatus = EmptyTable
  /\ memLast = [op |-> "none", key |-> NoKey, result |-> NoStatus, raised |-> NoError]

Next ==
  \/ \E n \in 1..MaxPages : Upload(n)
  \/ \E k \in Allocated : StoreImage(k, 1, "png")
  \/ \E p \in Allocated : DiskRemove(p)
  \/ \E t \in Tasks, k \in Allocated, req \in Selections : TruncStart(t, k, req)
  \/ \E t \in Tasks, k \in Allocated, req \in Selections : TruncateRoute(t, k, req)
  \/ \E t \in Tasks, k \in Allocated, req \in ImgSelections : ConvStart(t, k, req)
  \/ \E t \in Tasks, k \in Allocated, req \in ImgSelections : ConvertRoute(t, k, req)
  \/ \E t \in Tasks : RunAccess(t)
  \/ \E t \in Tasks : RunRead(t)
  \/ \E t \in Tasks : TruncLoad(t)
  \/ \E t \in Tasks : TruncCopy(t)
  \/ \E t \in Tasks, ok \in BOOLEAN : TruncPersist(t, ok)
  \/ \E t \in Tasks : ConvLoad(t)
  \/ \E t \in Tasks : ConvLaunch(t)
  \/ \E t \in Tasks : ConvJoinEmpty(t)
  \/ \E t \in Tasks, i \in 1..MaxKeys, ok \in BOOLEAN : ConvRender(t, i, ok)
  \/ \E t \in Tasks, i \in 1..MaxKeys : ConvStore(t, i)
  \/ \E t \in Tasks, k \in Allocated : GetFileStart(t, k)
  \/ \E t \in Tasks, k \in Allocated : GetImageStart(t, k)
  \/ \E t \in Tasks : GetFileAccess(t)
  \/ \E t \in Tasks : GetImageAccess(t)
  \/ \E t \in Tasks, k \in Allocated : DeleteStart(t, k)
  \/ \E t \in Tasks : DeleteAccess(t)
  \/ \E t \in Tasks, p \in Keys, ok \in BOOLEAN : DeleteImageFile(t, p, ok)
  \/ \E t \in Tasks, ok \in BOOLEAN : DeleteDocFile(t, ok)

Spec == Init /\ [][Next]_vars

\* one request at a time, every selection
NextSel ==
  \/ \E n \in 1..MaxPages : Upload(n)
  \/ \E k \in Allocated, req \in AllSelections : TruncStart(1, k, req)
  \/ \E k \in Allocated, req \in AllSelections : TruncateRoute(1, k, req)
  \/ \E k \in Allocated, req \in AllImgSelections : ConvStart(1, k, req)
  \/ \E k \in Allocated, req \in AllImgSelections : ConvertRoute(1, k, req)
  \/ RunAccess(1)
  \/ RunRead(1)
  \/ TruncLoad(1)
  \/ TruncCopy(1)
  \/ \E ok \in BOOLEAN : TruncPersist(1, ok)
  \/ ConvLoad(1)
  \/ ConvLaunch(1)
  \/ ConvJoinEmpty(1)
  \/ \E i \in 1..MaxKeys, ok \in BOOLEAN : ConvRender(1, i, ok)
  \/ \E i \in 1..MaxKeys : ConvStore(1, i)

SpecSel == Init /\ [][NextSel]_vars

\* one conversion at a time, image rows stored beside it
NextConv ==
  \/ \E n \in 1..MaxPages : Upload(n)
  \/ \E k \in Allocated : StoreImage(k, 1, "png")
  \/ \E k \in Allocated, req \in ImgSelections : ConvStart(1, k, req)
  \/ \E k \in Allocated, req \in ImgSelections : ConvertRoute(1, k, req)
  \/ RunAccess(1)
  \/ RunRead(1)
  \/ ConvLoad(1)
  \/ ConvLaunch(1)
  \/ ConvJoinEmpty(1)
  \/ \E i \in 1..MaxKeys, ok \in BOOLEAN : ConvRender(1, i, ok)
  \/ \E i \in 1..MaxKeys : ConvStore(1, i)

SpecConv == Init /\ [][NextConv]_vars

\* the delete operations, one request at a time
NextImg ==
  \/ \E n \in 1..MaxPages : Upload(n)
  \/ \E k \in Allocated : Free(1) /\ StoreImage(k, 1, "png")
  \/ \E p \in Allocated : DiskRemove(p)
  \/ \E table \in {"pdf", "img"}, k \in Allocated :
        Free(1) /\ SetProcessingStatus(table, k, InitialStatus(1))
  \/ \E k \in Allocated : DeleteStart(1, k)
  \/ DeleteAccess(1)
  \/ \E p \in Keys, ok \in BOOLEAN : DeleteImageFile(1, p, ok)
  \/ \E ok \in BOOLEAN : DeleteDocFile(1, ok)
  \/ \E k \in Allocated : DeleteImageStart(1, k)
  \/ \E k \in Allocated : DeleteImagesStart(1, k)
  \/ \E p \in Keys : ImageAccess(1, p)
  \/ \E p \in Keys, ok \in BOOLEAN : ImageUnlink(1, p, ok)
  \/ \E p \in Allocated, code \in {"none", "ENOENT", "EACCES"} : FsDelete(p, code)

SpecImg == Init /\ [][NextImg]_vars

\* deleteImagesByOriginalKey among the images of two documents
NextParent ==
  \/ UploadWithin(1, MaxParentKeys, MaxParents)
  \/ \E k \in Allocated : Free(1) /\ StoreImageWithin(k, 1, "png", MaxParentKeys)
  \/ \E p \in Allocated : DiskRemove(p)
  \/ \E table \in {"pdf", "img"}, k \in Allocated :
        Free(1) /\ SetProcessingStatus(table, k, InitialStatus(1))
  \/ \E k \in Allocated : DeleteImagesStart(1, k)
  \/ \E p \in 1..MaxParentKeys : ImageAccess(1, p)
  \/ \E p \in 1..MaxParentKeys, ok \in BOOLEAN : ImageUnlink(1, p, ok)

SpecParent == Init /\ [][NextParent]_vars

\* upload-and-truncate and truncate requests, one at a time
NextFlow ==
  \/ \E n \in 1..MaxPages, isPdf \in BOOLEAN, req \in AllSelections :
        UploadAndTruncate(1, n, isPdf, req)
  \/ \E k \in Allocated, req \in AllSelections : TruncateRoute(1, k, req)
  \/ RunAccess(1)
  \/ RunRead(1)
  \/ TruncLoad(1)
  \/ TruncCopy(1)
  \/ \E ok \in BOOLEAN : TruncPersist(1, ok)

SpecFlow == Init /\ [][NextFlow]_vars

\* the same calls made to the durable and to the in-memory store
NextPair ==
  \/ \E k \in PairKeys : PairStoreFile(k, 1)
  \/ \E k \in PairKeys : PairGetFile(k)
  \/ \E k \in PairKeys, ok \in BOOLEAN : PairDeleteFile(k, ok)
  \/ \E k \in PairKeys : PairSetStatus(k, InitialStatus(clock + 1))
  \/ \E k \in PairKeys : PairGetStatus(k)
  \/ \E k \in PairKeys, u \in {ProgressUpdate(25), CompletedUpdate(clock + 1)} :
        PairUpdateStatus(k, u)
  \/ \E p \in PairKeys : DiskRemove(p)

SpecPair == Init /\ [][NextPair]_vars

\* the status row a run leaves when its selection names no page of the document
RejectedStatus(now) == [status |-> "error", progress |-> 0, error |-> "Validation",
                        createdAt |-> now, completedAt |-> now]

\* the store after the upload of a one-page document and a truncation and a
\* conversion of it that were rejected, two and one ticks of the clock ago
InitTables ==
  /\ disk = Put(EmptyTable, 1, <<1>>)
  /\ files = Put(EmptyTable, 1, [filePath |-> 1, size |-> 1])
  /\ images = EmptyTable
  /\ status = [pdf |-> Put(EmptyTable, 1, RejectedStatus(-2)),
               img |-> Put(EmptyTable, 1, RejectedStatus(-1))]
  /\ nextKey = 2
  /\ clock = 0
  /\ task = [t \in Tasks |-> IdleTask]
  /\ uploads = 1
  /\ removals = 0
  /\ last = [op |-> "none", table |-> "none", key |-> NoKey, before |-> NoStatus,
             update |-> NoStatus, result |-> NoStatus, raised |-> NoError]
  /\ progressMap = EmptyTable
  /\ cleanupTimers = EmptyTable
  /\ timeouts = {}
  /\ nextUploadId = 1
  /\ calls = 0
  /\ streams = [r \in Requests |-> IdleStream]
  /\ memFiles = EmptyTable
  /\ memStatus = EmptyTable
  /\ memLast = [op |-> "none", key |-> NoKey, result |-> NoStatus, raised |-> NoError]

\* runs, deletes and direct status calls on either table, one request at a time
NextTables ==
  \/ \E k \in Allocated : Free(1) /\ StoreImage(k, 1, "png")
  \/ \E k \in Allocated, req \in Selections : TruncateRoute(1, k, req)
  \/ \E k \in Allocated, req \in ImgSelections : ConvertRoute(1, k, req)
  \/ \E k \in Allocated, req \in ImgSelections : ConvStart(1, k, req)
  \/ RunAccess(1)
  \/ RunRead(1)
  \/ TruncLoad(1)
  \/ TruncCopy(1)
  \/ \E ok \in BOOLEAN : TruncPersist(1, ok)
  \/ ConvLoad(1)
  \/ ConvLaunch(1)
  \/ ConvJoinEmpty(1)
  \/ \E i \in 1..MaxKeys, ok \in BOOLEAN : ConvRender(1, i, ok)
  \/ \E i \in 1..MaxKeys : ConvStore(1, i)
  \/ \E k \in Allocated : DeleteStart(1, k)
  \/ DeleteAccess(1)
  \/ \E p \in Keys, ok \in BOOLEAN : DeleteImageFile(1, p, ok)
  \/ \E ok \in BOOLEAN : DeleteDocFile(1, ok)
  \/ \E table \in {"pdf", "img"}, k \in Allocated :
        Free(1) /\ SetProcessingStatus(table, k, InitialStatus(clock + 1))
  \/ \E table \in {"pdf", "img"}, k \in Allocated :
        Free(1) /\ UpdateProcessingStatus(table, k, ProgressUpdate(25))

SpecTables == InitTables /\ [][NextTables]_vars

\* direct calls to the upload tracker, and its timers
NextTrack ==
  \/ InitiateUpload
  \/ \E id \in UploadIds, total \in Totals : StartUpload(id, total)
  \/ \E id \in UploadIds, loaded \in Totals : UpdateProgress(id, loaded)
  \/ \E id \in UploadIds : CompleteUpload(id)
  \/ \E id \in UploadIds, e \in Messages : FailUpload(id, e)
  \/ \E id \in UploadIds : GetProgress(id)
  \/ Tick
  \/ \E id \in UploadIds : Expire(id)

SpecTrack == Init /\ [][NextTrack]_vars

\* upload requests through the handler, and the tracker's timers
NextUp ==
  \/ InitiateUpload
  \/ \E r \in Requests, e \in {"Validation", "LengthRequired"} : HandlerRefuse(r, e)
  \/ \E r \in Requests, id \in UploadIds, total \in {0, MaxBytes} :
       HandlerAccept(r, id, total)
  \/ \E r \in Requests, n \in 1..MaxBytes : StreamData(r, n)
  \/ \E r \in Requests : StreamEnd(r)
  \/ \E r \in Requests : StreamError(r, "aborted")
  \/ \E r \in Requests : MulterError(r, "LIMIT_FILE_SIZE")
  \/ \E r \in Requests : MulterDone(r)
  \/ Tick
  \/ \E id \in UploadIds : Expire(id)

SpecUp == Init /\ [][NextUp]_vars

\* the timers of Node fire when due, and time does not stop
SpecTrackFair ==
  /\ SpecTrack
  /\ WF_vars(Tick)
  /\ WF_vars(\E id \in UploadIds : Expire(id))

\* the status tables alone
NextStore ==
  \/ \E table \in {"pdf", "img"}, k \in 1..2, s \in Statuses : SetProcessingStatus(table, k, s)
  \/ \E table \in {"pdf", "img"}, k \in 1..2, u \in Updates : UpdateProcessingStatus(table, k, u)
  \/ \E table \in {"pdf", "img"}, k \in 1..2 : GetProcessingStatus(table, k)
  \/ \E k \in 1..2, n \in 1..MaxPages : StoreFile(k, n)

SpecStore == Init /\ [][NextStore]_vars

(* ------------------------------ properties ----------------------------- *)
Pipelines == {"truncate", "convert"}

\* both classes of NotFoundError of getFile / getImage: no row, row without file
NotFoundErrors == {"FileNotFound", "FileGone"}

\* the step by which the request in slot t returns to its caller
Returns(t) ==
  /\ task'[t].pc = "done"
  /\ \/ task[t].pc # "done"
     \/ clock' # clock /\ Free(t) /\ \A u \in Tasks : u < t => ~Free(u)

\* the step by which a request starts in slot t
Starts(t) == clock' # clock /\ Free(t) /\ \A u \in Tasks : u < t => ~Free(u)

\* C1: when a step of a truncation or image conversion run fails, the run
\* leaves the status row of its key in state error with the failure's message
\* and a completion timestamp, and the caller receives that same failure.
C1_FailureRecorded ==
  [][\A t \in Tasks :
       Returns(t) /\ task'[t].op \in Pipelines /\ task'[t].err # NoError =>
         /\ task'[t].raised = task'[t].err
         /\ task'[t].key \in DOMAIN status'[TableOf(task'[t].op)]
         /\ status'[TableOf(task'[t].op)][task'[t].key].status = "error"
         /\ status'[TableOf(task'[t].op)][task'[t].key].error = task'[t].err
         /\ status'[TableOf(task'[t].op)][task'[t].key].completedAt # NoTime]_vars

\* a deleteFile request that has returned successfully
Deleted(tk) == tk.op = "deleteFile" /\ tk.pc = "done" /\ tk.raised = NoError

\* C2: when deleteFile(K) succeeds, the document's file and the files of the
\* images it had are gone from disk, the document row, every image row of K
\* and both status rows of K are gone; the files and rows stay gone, and a
\* later getFile(K) or getImage on one of the image keys fails NotFound.
C2_DeleteRemovesAll ==
  [][\A t \in Tasks :
       /\ Returns(t) /\ Deleted(task'[t]) =>
            /\ task'[t].key \notin DOMAIN status'.pdf
            /\ task'[t].key \notin DOMAIN status'.img
            /\ \A i \in DOMAIN images' : images'[i].originalPdfKey # task'[t].key
       /\ Deleted(task'[t]) =>
            /\ task'[t].key \notin DOMAIN files'
            /\ task'[t].row.filePath \notin DOMAIN disk'
            /\ task'[t].imgs \cap DOMAIN images' = {}
            /\ task'[t].imgs \cap DOMAIN disk' = {}
       /\ Deleted(task[t]) =>
            \A u \in Tasks :
              /\ Starts(u) /\ task'[u].op = "getFile" /\ task'[u].key = task[t].key
                   => task'[u].pc = "done" /\ task'[u].raised = "FileNotFound"
              /\ Starts(u) /\ task'[u].op = "getImage" /\ task'[u].key \in task[t].imgs
                   => task'[u].pc = "done" /\ task'[u].raised = "FileNotFound"]_vars

\* deleteFile(K) has succeeded on a document that had an image
C2_Witness ==
  \E t \in Tasks : Deleted(task[t]) /\ task[t].imgs # {} /\ task[t].key \notin DOMAIN files

\* the table a get request reads, after the step
TableAfter(op) == IF op = "getFile" THEN DOMAIN files' ELSE DOMAIN images'

\* C3: getFile(K) and getImage(K) fail NotFound when there is no row for K, and
\* when the row's file is absent from disk; in that case the stale row is
\* deleted before the error is raised and stays deleted; a get never returns a
\* row whose file is absent.
C3_GetNotFound ==
  [][\A t \in Tasks :
       /\ Starts(t) /\ task'[t].op = "getFile" /\ task'[t].key \notin DOMAIN files
            => task'[t].pc = "done" /\ task'[t].raised \in NotFoundErrors
       /\ Starts(t) /\ task'[t].op = "getImage" /\ task'[t].key \notin DOMAIN images
            => task'[t].pc = "done" /\ task'[t].raised \in NotFoundErrors
       /\ task[t].op \in {"getFile", "getImage"} /\ task[t].pc = "gaccess" /\ task'[t].pc = "done"
            => /\ task[t].row.filePath \notin DOMAIN disk
                    => /\ task'[t].raised \in NotFoundErrors
                       /\ task'[t].key \notin TableAfter(task'[t].op)
               /\ task'[t].raised = NoError => task[t].row.filePath \in DOMAIN disk'
       /\ task'[t].op \in {"getFile", "getImage"} /\ task'[t].raised = "FileGone"
            => task'[t].key \notin TableAfter(task'[t].op)]_vars

\* getFile has found a row whose file is absent, deleted the row, and failed
C3_Witness ==
  \E t \in Tasks :
    /\ task[t].op = "getFile" /\ task[t].pc = "done" /\ task[t].raised = "FileGone"
    /\ task[t].row # NoRow
    /\ task[t].key \notin DOMAIN files

\* C4: updateProcessingStatus(K, partial) on an existing row stores the shallow
\* merge: every field of the partial update has the new value in the stored
\* row, every other field its previous value.
C4_ShallowMerge ==
  last.op = "update" /\ last.raised = NoError =>
    \A f \in StatusFields :
      status[last.table][last.key][f] =
        IF f \in DOMAIN last.update THEN last.update[f] ELSE last.before[f]

\* a selection with exactly one of pages and pageRange
WellFormed(req) == req.hasPages # req.hasRange

\* a page of the list, or an end of the range, outside 1..n
OutOfRange(req, n) ==
  \/ req.hasPages /\ \E i \in 1..Len(req.pages) : req.pages[i] < 1 \/ req.pages[i] > n
  \/ req.hasRange /\ (req.start < 1 \/ req.start > n \/ (req.hasEnd /\ req.end > n))

\* the run in slot t, after the step, is for a stored document and selects
\* pages outside it
SelectsOutside(t) ==
  /\ task'[t].op \in Pipelines
  /\ WellFormed(task'[t].req)
  /\ task'[t].key \in DOMAIN files
  /\ files[task'[t].key].filePath \in DOMAIN disk
  /\ OutOfRange(task'[t].req, Len(disk[files[task'[t].key].filePath]))

\* a request the route handler rejected: the pipeline was not called
Rejected(tk) == tk.pc = "done" /\ tk.raised = "Validation" /\ tk.err = NoError

\* C5: a run whose selection has a page p < 1 or p > N, or a range with
\* start < 1, start > N or end > N, fails with a validation error; every step
\* of the run leaves the status row of its key in a state other than
\* completed (a request the route handler rejects changes no status row), and
\* none creates a document row, an image row or a file.
C5_OutOfRangeFails ==
  [][\A t \in Tasks :
       task'[t] # task[t] /\ SelectsOutside(t) =>
         /\ DOMAIN files' = DOMAIN files
         /\ DOMAIN images' = DOMAIN images
         /\ DOMAIN disk' = DOMAIN disk
         /\ IF Rejected(task'[t])
              THEN status' = status
              ELSE /\ task'[t].key \in DOMAIN status'[TableOf(task'[t].op)]
                   /\ status'[TableOf(task'[t].op)][task'[t].key].status # "completed"
         /\ task'[t].pc \notin {"copy", "save", "mkdir", "join"}
         /\ task'[t].pc = "done" => task'[t].raised = "Validation"]_vars

\* a truncation run with a range that ends after the last page has failed at
\* page resolution
C5_Witness ==
  \E t \in Tasks :
    /\ task[t].op = "truncate" /\ task[t].pc = "done"
    /\ task[t].req.hasRange /\ task[t].req.hasEnd /\ ~task[t].req.hasPages
    /\ task[t].totalPages > 0
    /\ task[t].req.start <= task[t].totalPages /\ task[t].req.end > task[t].totalPages
    /\ task[t].raised = "Validation"
    /\ status.pdf[task[t].key].status = "error"

\* the original statement of C6: a run whose selection has both or neither of
\* pages and pageRange fails with a validation error and no step of it changes
\* the status tables.
C6_RejectedBeforeStatus ==
  [][\A t \in Tasks :
       task'[t] # task[t] /\ task'[t].op \in Pipelines /\ ~WellFormed(task'[t].req) =>
         /\ status' = status
         /\ task'[t].pc = "done" => task'[t].raised = "Validation"]_vars

\* the request of the step that starts in slot t came through the route handler
ThroughRoute(t) ==
  \/ TruncateRoute(t, task'[t].key, task'[t].req)
  \/ ConvertRoute(t, task'[t].key, task'[t].req)

\* the request of the step that starts in slot t called the pipeline itself
ThroughPipeline(t) ==
  \/ TruncStart(t, task'[t].key, task'[t].req)
  \/ ConvStart(t, task'[t].key, task'[t].req)

\* C6, amended: a request through the route handlers whose selection has both
\* or neither of pages and pageRange is rejected with a validation error before
\* the pipeline is called, so the status tables and the stores are unchanged.
\* A pipeline called with such a selection writes status processing/0 first;
\* then truncation with neither fails validation at page resolution and leaves
\* status error, image conversion with neither selects every page, and with
\* both the page list alone decides.
C6_RouteRejects ==
  [][\A t \in Tasks :
       /\ Starts(t) /\ ~WellFormed(task'[t].req) /\ ThroughRoute(t) =>
            /\ task'[t].pc = "done" /\ task'[t].raised = "Validation"
            /\ status' = status /\ files' = files /\ images' = images /\ disk' = disk
       /\ Starts(t) /\ ~WellFormed(task'[t].req) /\ ThroughPipeline(t) =>
            /\ task'[t].key \in DOMAIN status'[TableOf(task'[t].op)]
            /\ status'[TableOf(task'[t].op)][task'[t].key].progress = 0
            /\ status'[TableOf(task'[t].op)][task'[t].key].createdAt # NoTime
       /\ task[t].pc = "load" /\ task'[t].pc # "load" /\ ~WellFormed(task[t].req) =>
            IF task[t].req.hasPages
              THEN task'[t].pc # "done" =>
                     task'[t].idx = [i \in 1..Len(task[t].req.pages) |-> task[t].req.pages[i] - 1]
              ELSE IF task[t].op = "truncate"
                THEN /\ task'[t].pc = "done" /\ task'[t].raised = "Validation"
                     /\ status'.pdf[task[t].key].status = "error"
                ELSE /\ task'[t].pc = "mkdir"
                     /\ task'[t].idx = [i \in 1..Len(task[t].bytes) |-> i - 1]]_vars

\* the image route has rejected a request that names no page, for a stored
\* document whose status row was never written
C6_Witness ==
  \E t \in Tasks :
    /\ task[t].op = "convert" /\ task[t].pc = "done"
    /\ ~task[t].req.hasPages /\ ~task[t].req.hasRange
    /\ task[t].raised = "Validation" /\ task[t].err = NoError
    /\ task[t].key \in DOMAIN files
    /\ task[t].key \notin DOMAIN status.img

\* page resolution of the run has returned a list of indices
PastResolution(tk) ==
  \/ tk.pc \in {"copy", "save", "mkdir", "join"}
  \/ tk.pc = "done" /\ tk.totalPages > 0 /\ tk.err \notin {"Validation", "StatusNotFound"}

\* the truncated document of the run has been built
Built(tk) ==
  /\ tk.op = "truncate"
  /\ tk.pc = "save" \/ (tk.pc = "done" /\ tk.totalPages > 0 /\ tk.err \in {NoError, "WriteError"})

\* C7: for a page list P with 1 <= p <= N for every p, page resolution succeeds
\* with the indices p - 1 in P's order, repeated pages kept, and the truncated
\* document has |P| pages, page i being page P[i] of the source.
C7_ExplicitPages ==
  \A t \in Tasks :
    /\ task[t].op \in Pipelines
    /\ task[t].req.hasPages
    /\ task[t].totalPages > 0
    /\ \A i \in 1..Len(task[t].req.pages) :
         1 <= task[t].req.pages[i] /\ task[t].req.pages[i] <= task[t].totalPages
    => /\ task[t].err # "Validation"
       /\ PastResolution(task[t]) =>
            /\ Len(task[t].idx) = Len(task[t].req.pages)
            /\ \A i \in 1..Len(task[t].req.pages) : task[t].idx[i] = task[t].req.pages[i] - 1
       /\ Built(task[t]) =>
            /\ Len(task[t].newDoc) = Len(task[t].req.pages)
            /\ \A i \in 1..Len(task[t].req.pages) :
                 task[t].newDoc[i] = task[t].bytes[task[t].req.pages[i]]
       /\ task[t].op = "truncate" /\ task[t].pc = "done" /\ task[t].err = NoError =>
            disk[task[t].outKey] = task[t].newDoc

\* a truncation with a list that names the second page twice has written a
\* document of two pages, both the source's second page
C7_Witness ==
  \E t \in Tasks :
    /\ task[t].op = "truncate" /\ task[t].pc = "done" /\ task[t].err = NoError
    /\ task[t].req.pages = <<2, 2>>
    /\ task[t].outKey \in DOMAIN disk
    /\ disk[task[t].outKey] = <<task[t].bytes[2], task[t].bytes[2]>>

\* the end of the range of a request over n pages
RangeEnd(req, n) == IF req.hasEnd THEN req.end ELSE n

\* C8: for a range with 1 <= start <= end <= N, page resolution succeeds with
\* the ascending indices start-1 .. end-1, end-start+1 of them; an omitted end
\* is the last page N.
C8_Range ==
  \A t \in Tasks :
    /\ task[t].op \in Pipelines
    /\ task[t].req.hasRange /\ ~task[t].req.hasPages
    /\ task[t].totalPages > 0
    /\ 1 <= task[t].req.start
    /\ task[t].req.start <= RangeEnd(task[t].req, task[t].totalPages)
    /\ RangeEnd(task[t].req, task[t].totalPages) <= task[t].totalPages
    => /\ task[t].err # "Validation"
       /\ PastResolution(task[t]) =>
            /\ Len(task[t].idx) = RangeEnd(task[t].req, task[t].totalPages) - task[t].req.start + 1
            /\ \A i \in 1..Len(task[t].idx) : task[t].idx[i] = task[t].req.start - 1 + (i - 1)
       /\ Built(task[t]) =>
            Len(task[t].newDoc) = RangeEnd(task[t].req, task[t].totalPages) - task[t].req.start + 1

\* a truncation with the range {start: 1} of a document of more than one page
\* has written every page
C8_Witness ==
  \E t \in Tasks :
    /\ task[t].op = "truncate" /\ task[t].pc = "done" /\ task[t].err = NoError
    /\ task[t].req.hasRange /\ ~task[t].req.hasEnd /\ ~task[t].req.hasPages
    /\ task[t].req.start = 1
    /\ task[t].totalPages > 1
    /\ task[t].outKey \in DOMAIN disk
    /\ disk[task[t].outKey] = task[t].bytes

\* C9: when a truncation run returns resultKey R, the status row of the source
\* key is completed with progress 100 and a completion time, R is a key never
\* used before and not the source key, R's row and file exist and the row's
\* size is the length of the file; a truncation step that makes the status row
\* completed has written R's file and stored R's row; getFile returns a row
\* whose size is the length of its file.
C9_TruncationResult ==
  [][\A t \in Tasks :
       /\ task[t].op = "truncate" /\ task[t].pc = "save" /\ task'[t].pc = "done"
          /\ task'[t].raised = NoError =>
            /\ task'[t].key \in DOMAIN status'.pdf
            /\ status'.pdf[task'[t].key].status = "completed"
            /\ status'.pdf[task'[t].key].progress = 100
            /\ status'.pdf[task'[t].key].completedAt # NoTime
            /\ task'[t].outKey # task'[t].key
            /\ task'[t].outKey >= nextKey
            /\ task'[t].outKey \notin DOMAIN files \cup DOMAIN images \cup DOMAIN disk
            /\ task'[t].outKey \in DOMAIN files'
            /\ files'[task'[t].outKey].filePath \in DOMAIN disk'
            /\ files'[task'[t].outKey].size = Len(disk'[files'[task'[t].outKey].filePath])
       /\ task'[t] # task[t] /\ task'[t].op = "truncate"
          /\ task'[t].key \in DOMAIN status'.pdf
          /\ status'.pdf[task'[t].key].status = "completed"
          /\ status'.pdf # status.pdf =>
            /\ task'[t].outKey \in DOMAIN files'
            /\ files'[task'[t].outKey].filePath \in DOMAIN disk'
       /\ task[t].op = "getFile" /\ task[t].pc = "gaccess" /\ task'[t].pc = "done" =>
            IF task[t].row.filePath \in DOMAIN disk
              THEN /\ task'[t].raised = NoError
                   /\ task'[t].outKey = task[t].key
                   /\ task'[t].row.size = Len(disk[task[t].row.filePath])
              ELSE task'[t].raised # NoError]_vars

\* getFile has returned the row of a document other than the one whose
\* truncation completed: the document the truncation stored
C9_Witness ==
  \E t \in Tasks, k \in DOMAIN status.pdf :
    /\ status.pdf[k].status = "completed"
    /\ task[t].op = "getFile" /\ task[t].pc = "done" /\ task[t].raised = NoError
    /\ task[t].outKey # k
    /\ task[t].outKey \in DOMAIN files
    /\ task[t].outKey \notin DOMAIN images
    /\ task[t].row.size = Len(disk[task[t].row.filePath])

\* C10: every image a conversion run for K produces (rendered and measured,
\* K still a stored document) is registered with parent K, the 1-based number
\* of its page and the requested format, so that getImagesByOriginalKey(K)
\* returns it.
C10_ImagesRegistered ==
  [][\A t \in Tasks, i \in 1..MaxKeys :
       /\ i <= Len(task[t].conv)
       /\ task[t].conv[i].st = "stat"
       /\ task'[t].conv[i].st # "stat"
       /\ task[t].conv[i].key \in DOMAIN disk
       /\ task[t].key \in DOMAIN files
       => /\ task[t].conv[i].key \in DOMAIN images'
          /\ images'[task[t].conv[i].key].originalPdfKey = task[t].key
          /\ images'[task[t].conv[i].key].pageNumber = task[t].idx[i] + 1
          /\ images'[task[t].conv[i].key].format =
               (IF task[t].req.format = "none" THEN "png" ELSE task[t].req.format)
          /\ task[t].conv[i].key \in
               {j \in DOMAIN images' : images'[j].originalPdfKey = task[t].key}]_vars

\* a conversion of the run in slot t ends in failure in this step
ConversionFails(t) ==
  \E i \in 1..Len(task[t].conv) :
    task[t].conv[i].st \in {"render", "stat"} /\ task'[t].conv[i].st = "failed"

\* no image row is removed or changed by the step
ImagesKept == \A k \in DOMAIN images : k \in DOMAIN images' /\ images'[k] = images[k]

\* C11: when the conversion of one page of an image run fails, the run fails:
\* it raises the failure to its caller, the image status row of its key is in
\* state error, no later step of that run (conversions of other pages that
\* still finish) sets it to completed, and the image rows in the store stay.
C11_PageFailureFailsRun ==
  [][\A t \in Tasks :
       /\ ConversionFails(t) /\ task[t].pc = "join"
            => /\ task'[t].pc = "done"
               /\ task'[t].err = "Processing"
               /\ task'[t].raised = "Processing"
               /\ status'.img[task[t].key].status = "error"
               /\ status'.img[task[t].key].error = "Processing"
               /\ ImagesKept
       /\ task[t].op = "convert" /\ task[t].pc = "done" /\ task[t].err # NoError /\ ~Starts(t)
            => /\ status'.img[task[t].key].status = "error"
               /\ ImagesKept]_vars

\* a run has failed because the rendering of a page failed, and an image row
\* of its document is in the store
C11_Witness ==
  \E t \in Tasks :
    /\ task[t].op = "convert"
    /\ task[t].pc = "done"
    /\ task[t].raised = "Processing"
    /\ Len(task[t].conv) >= 1
    /\ task[t].conv[1].st = "failed"
    /\ task[t].conv[1].key \notin DOMAIN disk
    /\ status.img[task[t].key].status = "error"
    /\ \E k \in DOMAIN images : images[k].originalPdfKey = task[t].key

\* the conversions of a run that have not finished
Unfinished(tk) == {i \in 1..Len(tk.conv) : tk.conv[i].st \in {"render", "stat"}}

\* C12: once an image run has started its page conversions, it changes the
\* status row (next progress value, completed or error) and returns or raises
\* only when every conversion it started has finished, and none of its
\* conversions stores an image row after the run has ended.
C12_WaitsForAll ==
  [][\A t \in Tasks :
       task'[t].op = "convert" /\ task'[t].conv # <<>> /\ ~Starts(t)
         => /\ status'.img # status.img => Unfinished(task'[t]) = {}
            /\ task[t].pc # "done" /\ task'[t].pc = "done" => Unfinished(task'[t]) = {}
            /\ \A i \in 1..Len(task'[t].conv) :
                 task'[t].conv[i].key \in DOMAIN images' /\ task'[t].conv[i].key \notin DOMAIN images
                   => task[t].pc # "done"]_vars

ProgressSteps == {<<0, 0>>, <<25, 25>>, <<75, 75>>, <<0, 25>>, <<25, 75>>, <<75, 100>>}

\* C14: in a run with no other request beside it, the progress values of the
\* status row of its key start at 0 and each step keeps the value or moves it
\* to the next of 0, 25, 75, 100; the state is processing only at 0, 25 or 75,
\* progress 100 comes exactly with state completed, and a step that fails
\* leaves state error with the progress value reached before it.
C14_ProgressSequence ==
  [][\A t \in Tasks :
       task'[t].op \in Pipelines /\ ~Rejected(task'[t]) /\ task'[t] # task[t]
         => LET tbl == TableOf(task'[t].op)
                k == task'[t].key
            IN /\ IF Starts(t)
                    THEN status'[tbl][k].progress = 0
                    ELSE <<status[tbl][k].progress, status'[tbl][k].progress>> \in ProgressSteps
               /\ status'[tbl][k].status = "processing" => status'[tbl][k].progress \in {0, 25, 75}
               /\ status'[tbl][k].progress = 100 <=> status'[tbl][k].status = "completed"
               /\ task'[t].err # NoError
                    => /\ status'[tbl][k].status = "error"
                       /\ ~Starts(t) => status'[tbl][k].progress = status[tbl][k].progress]_vars

\* a truncation has failed while writing its result, after progress 75
C14_Witness ==
  \E t \in Tasks :
    /\ task[t].op = "truncate"
    /\ task[t].pc = "done"
    /\ task[t].err = "WriteError"
    /\ status.pdf[task[t].key].status = "error"
    /\ status.pdf[task[t].key].progress = 75

\* C15: the start of a run for a key that already has a status row in a
\* terminal state replaces that row and adds none: the table has the same
\* keys, the other rows and the other table are unchanged, and the row is
\* processing with progress 0, no error message and no completion time (when
\* the key is no stored document the run fails at once, and the row carries
\* that failure and the time of the new run, nothing of the earlier run).
C15_RunOverwritesStatus ==
  [][\A t \in Tasks :
       LET tbl == TableOf(task'[t].op)
           k == task'[t].key
       IN /\ Starts(t)
          /\ task'[t].op \in Pipelines
          /\ ~Rejected(task'[t])
          /\ k \in DOMAIN status[tbl]
          /\ status[tbl][k].status \in {"completed", "error"}
          => /\ DOMAIN status'[tbl] = DOMAIN status[tbl]
             /\ \A j \in DOMAIN status[tbl] : j # k => status'[tbl][j] = status[tbl][j]
             /\ \A other \in {"pdf", "img"} : other # tbl => status'[other] = status[other]
             /\ status'[tbl][k].progress = 0
             /\ IF k \in DOMAIN files
                  THEN /\ status'[tbl][k].status = "processing"
                       /\ status'[tbl][k].error = NoError
                       /\ status'[tbl][k].completedAt = NoTime
                  ELSE /\ status'[tbl][k].status = "error"
                       /\ status'[tbl][k].error = "FileNotFound"
                       /\ status'[tbl][k].completedAt = clock']_vars

\* a second run for a key has started over the row an earlier, failed run left
C15_Witness ==
  \E t \in Tasks :
    /\ task[t].op \in Pipelines
    /\ task[t].pc = "access"
    /\ status[TableOf(task[t].op)][task[t].key].createdAt < clock
    /\ status[TableOf(task[t].op)][task[t].key].status = "processing"
    /\ status[TableOf(task[t].op)][task[t].key].progress = 0
    /\ status[TableOf(task[t].op)][task[t].key].error = NoError
    /\ status[TableOf(task[t].op)][task[t].key].completedAt = NoTime

\* the progress value a run has reached when it ends with error e
ProgressAt(e) ==
  IF e = NoError THEN 100
  ELSE IF e \in {"WriteError", "Processing"} THEN 75
  ELSE 0

\* the row is the status the ended run tk has written: its state, its
\* progress, its error message and a completion time
OwnStatus(row, tk) ==
  /\ row.status = (IF tk.err = NoError THEN "completed" ELSE "error")
  /\ row.progress = ProgressAt(tk.err)
  /\ row.error = tk.err
  /\ row.completedAt # NoTime

\* two runs of the same pipeline for the same key have both ended
BothEnded ==
  /\ \A t \in Tasks : task[t].op \in Pipelines /\ task[t].pc = "done" /\ ~Rejected(task[t])
  /\ task[1].op = task[2].op
  /\ task[1].key = task[2].key
  /\ task[1].key \in DOMAIN status[TableOf(task[1].op)]

\* C16: after two interleaved runs of the same pipeline for the same key have
\* both ended, the status row is the status of one of them - state, progress,
\* error message and completion time all from the run that wrote last.
C16_LastWriterWins ==
  BothEnded => \E t \in Tasks : OwnStatus(status[TableOf(task[1].op)][task[1].key], task[t])

\* C16, amended: every status write of a run is a merge into the row as it is,
\* whichever run wrote it: a progress update replaces state and progress and
\* keeps error message and completion time, the completed update replaces
\* state, progress and completion time and keeps the error message, the error
\* update replaces state, error message and completion time and keeps the
\* progress; only the start of a run replaces all four. After two interleaved
\* runs the row's state is the last writer's, the other fields are those of
\* the last write that named them.
C16_MergedWrites ==
  [][\A t \in Tasks :
       LET tbl == TableOf(task'[t].op)
           k == task'[t].key
       IN /\ task'[t].op \in Pipelines
          /\ ~Rejected(task'[t])
          /\ task'[t] # task[t]
          /\ k \in DOMAIN status'[tbl]
          => IF Starts(t)
               THEN /\ status'[tbl][k].progress = 0
                    /\ status'[tbl][k].status = "processing"
                         => status'[tbl][k].error = NoError /\ status'[tbl][k].completedAt = NoTime
                    /\ status'[tbl][k].status # "processing"
                         => /\ status'[tbl][k].status = "error"
                            /\ status'[tbl][k].error = task'[t].err
                            /\ status'[tbl][k].completedAt = clock'
               ELSE \/ status'[tbl][k] = status[tbl][k]
                    \/ /\ status'[tbl][k].status = "processing"
                       /\ status'[tbl][k].progress \in {25, 75}
                       /\ status'[tbl][k].error = status[tbl][k].error
                       /\ status'[tbl][k].completedAt = status[tbl][k].completedAt
                       /\ status'[tbl][k].createdAt = status[tbl][k].createdAt
                    \/ /\ status'[tbl][k].status = "completed"
                       /\ status'[tbl][k].progress = 100
                       /\ status'[tbl][k].error = status[tbl][k].error
                       /\ status'[tbl][k].completedAt = clock
                       /\ status'[tbl][k].createdAt = status[tbl][k].createdAt
                    \/ /\ status'[tbl][k].status = "error"
                       /\ status'[tbl][k].progress = status[tbl][k].progress
                       /\ status'[tbl][k].error = task'[t].err
                       /\ status'[tbl][k].completedAt = clock
                       /\ status'[tbl][k].createdAt = status[tbl][k].createdAt]_vars

\* two runs for one key have ended, and the row is completed with the error
\* message of the run that failed
C16_Witness ==
  /\ BothEnded
  /\ status[TableOf(task[1].op)][task[1].key].status = "completed"
  /\ status[TableOf(task[1].op)][task[1].key].error # NoError

C18_StatusNotFound ==
  [][/\ clock' # clock
     /\ last'.op \in {"update", "get"}
     /\ last'.key \notin DOMAIN status[last'.table]
     => /\ last'.raised = "StatusNotFound"
        /\ status' = status]_vars

\* an update has failed for a key without row while the table has another row
C18_Witness ==
  /\ last.op = "update"
  /\ last.raised = "StatusNotFound"
  /\ last.key \notin DOMAIN status[last.table]
  /\ status[last.table] # EmptyTable

\* the step by which the deleteFile request in slot t throws its AppError
DeleteRaises(t) ==
  /\ task[t].op = "deleteFile"
  /\ task[t].pc \in {"dimages", "dfile"}
  /\ task'[t].pc = "done"
  /\ task'[t].raised = "DeleteError"

\* C19: when an unlink of deleteFile(K) fails, deleteFile raises its error,
\* and the deletion of every other artifact of K has still been attempted:
\* the unlink of every enumerated image file was started and the unlink of the
\* document's file was made, so the error is raised at the document's file.
C19_DeleteAttemptsAll ==
  [][\A t \in Tasks :
       /\ (\/ \E p \in Keys : DeleteImageFile(t, p, FALSE)
           \/ DeleteDocFile(t, FALSE))
            => task'[t].raised = "DeleteError"
       /\ DeleteRaises(t) => task[t].pc = "dfile"]_vars

\* C20: deleteFile(K) removes the document row of K only when the file of K
\* and every image file it enumerated are gone from disk.
C20_RowsAfterFiles ==
  [][\A t \in Tasks :
       /\ task'[t].op = "deleteFile"
       /\ task'[t] # task[t]
       /\ task'[t].key \in DOMAIN files
       /\ task'[t].key \notin DOMAIN files'
       => /\ files[task'[t].key].filePath \notin DOMAIN disk'
          /\ task'[t].imgs \cap DOMAIN disk' = {}]_vars

\* C21: a deleteFile or deleteImage for a key that the same operation has just
\* deleted successfully fails with NotFound and changes neither the disk nor a
\* table; FileUtils.deleteFile on a path that is already gone raises nothing
\* and leaves the disk as it is.
C21_SecondDelete ==
  [][/\ \A t \in Tasks :
          /\ task[t].raised = NoError
          /\ \/ task[t].op = "deleteFile" /\ DeleteStart(t, task[t].key)
             \/ task[t].op = "deleteImage" /\ DeleteImageStart(t, task[t].key)
          => /\ task'[t].pc = "done"
             /\ task'[t].raised = "FileNotFound"
             /\ UNCHANGED <<disk, files, images, status>>
     /\ \A p \in Keys :
          /\ last'.op = "unlink"
          /\ last'.key = p
          /\ last' # last
          /\ p \notin DOMAIN disk
          => /\ last'.raised = NoError
             /\ disk' = disk]_vars

\* the document of key 1 was deleted by deleteFile, a second deleteFile for it
\* has failed with NotFound, and FileUtils.deleteFile was then called on its
\* path, which is gone
C21_Witness ==
  /\ task[1].op = "deleteFile"
  /\ task[1].key = 1
  /\ task[1].raised = "FileNotFound"
  /\ clock = 2
  /\ removals = 0
  /\ 1 \notin DOMAIN files
  /\ last.op = "unlink"
  /\ last.key = 1
  /\ last.table = "ENOENT"
  /\ last.raised = NoError

(* ------------------------------- claim C22 ----------------------------- *)

\* the step is a direct call of the tracker operation `name` on uploadId
Calls(name, uploadId) ==
  /\ calls' = calls + 1
  /\ last'.op = name
  /\ last'.key = uploadId

\* every session but uploadId, and every timer but its own, is as before
OthersUnchanged(uploadId) ==
  /\ DOMAIN progressMap' \ {uploadId} = DOMAIN progressMap \ {uploadId}
  /\ DOMAIN cleanupTimers' \ {uploadId} = DOMAIN cleanupTimers \ {uploadId}
  /\ \A id \in DOMAIN progressMap \ {uploadId} : progressMap'[id] = progressMap[id]
  /\ \A id \in DOMAIN cleanupTimers \ {uploadId} : cleanupTimers'[id] = cleanupTimers[id]

\* C22: startUpload(id, total) on a registered session, whatever its state, leaves
\* the session {uploading, total, loaded 0, percentage 0} with no error string and
\* its timer a full hour from now; on an id that is not registered (never issued
\* or purged) it raises "Upload ID not found" and the tracker is unchanged
C22_StartReplaces ==
  [][\A id \in UploadIds :
       Calls("startUpload", id) =>
         IF id \in DOMAIN progressMap
         THEN /\ last'.raised = NoError
              /\ id \in DOMAIN progressMap'
              /\ progressMap'[id].status = "uploading"
              /\ progressMap'[id].total \in Totals
              /\ progressMap'[id].loaded = 0
              /\ progressMap'[id].percentage = 0
              /\ progressMap'[id].error = NoError
              /\ cleanupTimers'[id] = HourTicks
              /\ OthersUnchanged(id)
         ELSE /\ last'.raised = "UploadIdNotFound"
              /\ progressMap' = progressMap
              /\ cleanupTimers' = cleanupTimers]_vars

\* the fourth call is a start on session 1, the only session ever registered
C22_Witness ==
  /\ last.op = "startUpload"
  /\ last.key = 1
  /\ last.raised = NoError
  /\ calls = 4
  /\ 1 \in DOMAIN progressMap
  /\ progressMap[1] = UploadingProgress(MaxBytes)
  /\ cleanupTimers[1] = HourTicks
  /\ nextUploadId = 2

(* ------------------------------- claim C23 ----------------------------- *)

\* C23: updateProgress(id, loaded) raises nothing and leaves every timer alone;
\* on an id that is not registered or whose session is not in state uploading
\* the whole tracker is unchanged; on a session in state uploading only its
\* loaded and percentage may differ afterwards
C23_UpdateFrame ==
  [][\A id \in UploadIds :
       Calls("updateProgress", id) =>
         /\ last'.raised = NoError
         /\ cleanupTimers' = cleanupTimers
         /\ nextUploadId' = nextUploadId
         /\ IF id \in DOMAIN progressMap /\ progressMap[id].status = "uploading"
            THEN /\ id \in DOMAIN progressMap'
                 /\ progressMap'[id].status = "uploading"
                 /\ progressMap'[id].total = progressMap[id].total
                 /\ progressMap'[id].error = progressMap[id].error
                 /\ OthersUnchanged(id)
            ELSE progressMap' = progressMap]_vars

\* an update applied to session 1, whose timer has run down since its start
C23_Witness ==
  /\ last.op = "updateProgress"
  /\ last.key = 1
  /\ 1 \in DOMAIN progressMap
  /\ progressMap[1].status = "uploading"
  /\ progressMap[1].total = MaxBytes
  /\ progressMap[1].loaded = MaxBytes - 1
  /\ progressMap[1].percentage = Percentage(MaxBytes - 1, MaxBytes)
  /\ cleanupTimers[1] = 0

(* ------------------------------- claim C24 ----------------------------- *)

\* C24: completeUpload(id) on a registered session leaves it in state completed
\* with loaded = total and percentage 100 and its timer a full hour from now;
\* on an id that is not registered it raises nothing and the tracker is unchanged
C24_CompleteSets ==
  [][\A id \in UploadIds :
       Calls("completeUpload", id) =>
         /\ last'.raised = NoError
         /\ nextUploadId' = nextUploadId
         /\ IF id \in DOMAIN progressMap
            THEN /\ id \in DOMAIN progressMap'
                 /\ progressMap'[id].status = "completed"
                 /\ progressMap'[id].total = progressMap[id].total
                 /\ progressMap'[id].loaded = progressMap[id].total
                 /\ progressMap'[id].percentage = 100
                 /\ cleanupTimers'[id] = HourTicks
                 /\ OthersUnchanged(id)
            ELSE /\ progressMap' = progressMap
                 /\ cleanupTimers' = cleanupTimers]_vars

\* session 1 completed with a positive total; session 2, registered before the
\* start of session 1, has its timer run down, so the timer of 1 was reset
C24_Witness ==
  /\ last.op = "completeUpload"
  /\ last.key = 1
  /\ calls = 4
  /\ 1 \in DOMAIN progressMap
  /\ progressMap[1].status = "completed"
  /\ progressMap[1].total = MaxBytes
  /\ progressMap[1].loaded = MaxBytes
  /\ cleanupTimers[1] = HourTicks
  /\ 2 \in DOMAIN cleanupTimers
  /\ cleanupTimers[2] = 0

(* ------------------------------- claim C25 ----------------------------- *)

\* C25: failUpload(id, message) on a registered session leaves it in state error
\* with that message, with total, loaded and percentage as before and its timer a
\* full hour from now; on an id that is not registered it raises nothing and the
\* tracker is unchanged
C25_FailFrame ==
  [][\A id \in UploadIds :
       Calls("failUpload", id) =>
         /\ last'.raised = NoError
         /\ nextUploadId' = nextUploadId
         /\ IF id \in DOMAIN progressMap
            THEN /\ id \in DOMAIN progressMap'
                 /\ progressMap'[id].status = "error"
                 /\ progressMap'[id].error \in Messages
                 /\ FailUpload(id, progressMap'[id].error)
                 /\ progressMap'[id].total = progressMap[id].total
                 /\ progressMap'[id].loaded = progressMap[id].loaded
                 /\ progressMap'[id].percentage = progressMap[id].percentage
                 /\ cleanupTimers'[id] = HourTicks
                 /\ OthersUnchanged(id)
            ELSE /\ progressMap' = progressMap
                 /\ cleanupTimers' = cleanupTimers]_vars

\* session 1 failed part-way through (loaded 2 of 3) and keeps its byte counts
C25_Witness ==
  /\ last.op = "failUpload"
  /\ last.key = 1
  /\ 1 \in DOMAIN progressMap
  /\ progressMap[1].status = "error"
  /\ progressMap[1].error = "aborted"
  /\ progressMap[1].total = MaxBytes
  /\ progressMap[1].loaded = MaxBytes - 1
  /\ progressMap[1].percentage = Percentage(MaxBytes - 1, MaxBytes)
  /\ cleanupTimers[1] = HourTicks

(* ------------------------------- claim C26 ----------------------------- *)

\* percentage is an integer nearest to 100 * loaded / total
Nearest(percentage, loaded, total) ==
  /\ 2 * (100 * loaded - percentage * total) <= total
  /\ 2 * (percentage * total - 100 * loaded) <= total

\* C26: in every reachable state of the tracker each session's percentage is
\* loaded/total in percent rounded to the nearest integer when total > 0, and 0
\* when total is 0
C26_PercentageInvariant ==
  \A id \in DOMAIN progressMap :
    IF progressMap[id].total > 0
    THEN Nearest(progressMap[id].percentage, progressMap[id].loaded,
                 progressMap[id].total)
    ELSE progressMap[id].percentage = 0

\* C26, as the code has it: the percentage is the rounded ratio when total > 0;
\* when total is 0 it is 0 for a session that is pending or uploading and 100
\* for a completed one, and a failed session keeps the one it had
C26_PercentageUnlessCompletedEmpty ==
  \A id \in DOMAIN progressMap :
    IF progressMap[id].total > 0
    THEN Nearest(progressMap[id].percentage, progressMap[id].loaded,
                 progressMap[id].total)
    ELSE /\ progressMap[id].status \in {"pending", "uploading"}
              => progressMap[id].percentage = 0
         /\ progressMap[id].status = "completed" => progressMap[id].percentage = 100
         /\ progressMap[id].status = "error" => progressMap[id].percentage \in {0, 100}

\* a session whose ratio 2/3 is rounded up to 67
C26_Witness ==
  /\ 1 \in DOMAIN progressMap
  /\ progressMap[1].status = "uploading"
  /\ progressMap[1].total = MaxBytes
  /\ progressMap[1].loaded = MaxBytes - 1
  /\ progressMap[1].percentage = (200 * (MaxBytes - 1) + MaxBytes) \div (2 * MaxBytes)
  /\ progressMap[1].percentage # (100 * (MaxBytes - 1)) \div MaxBytes

(* ------------------------------- claim C27 ----------------------------- *)

\* the step is a call that counts as a state transition of session uploadId
Transition(uploadId) ==
  \/ Calls("initiateUpload", uploadId)
  \/ uploadId \in DOMAIN progressMap /\ \/ Calls("startUpload", uploadId)
                                        \/ Calls("completeUpload", uploadId)
                                        \/ Calls("failUpload", uploadId)

\* the timers measure the time since the last transition: a transition puts the
\* session's timer a full hour ahead, a tick of time brings every timer one tick
\* nearer, and nothing else touches a timer; a session leaves the tracker only
\* when its timer has run down, in whatever state it is, and never comes back
PurgeAtTheHour ==
  [][\A id \in UploadIds :
       /\ Transition(id) => id \in DOMAIN progressMap' /\ cleanupTimers'[id] = HourTicks
       /\ Calls("updateProgress", id) \/ Calls("getProgress", id)
            => cleanupTimers' = cleanupTimers
       /\ id \in DOMAIN cleanupTimers /\ id \in DOMAIN cleanupTimers' /\ ~Transition(id)
            => \/ cleanupTimers'[id] = cleanupTimers[id]
               \/ /\ calls' = calls
                  /\ cleanupTimers'[id] = cleanupTimers[id] - 1
                  /\ \A other \in DOMAIN cleanupTimers :
                       cleanupTimers'[other] = cleanupTimers[other] - 1
       /\ id \in DOMAIN progressMap /\ id \notin DOMAIN progressMap'
            => /\ cleanupTimers[id] = 0
               /\ id \notin DOMAIN cleanupTimers'
               /\ calls' = calls
       /\ id \notin DOMAIN progressMap /\ id < nextUploadId
            => id \notin DOMAIN progressMap'
       /\ id \notin DOMAIN progressMap /\ Calls("getProgress", id)
            => last'.result = NoProgress
       /\ id \notin DOMAIN progressMap /\ Calls("startUpload", id)
            => last'.raised = "UploadIdNotFound"]_vars

\* every registered session has a timer that is not overdue
TimersPending ==
  /\ DOMAIN cleanupTimers = DOMAIN progressMap
  /\ \A id \in DOMAIN cleanupTimers : cleanupTimers[id] \in 0..HourTicks

\* C27: a session is purged when its timer, restarted by initiate, start, complete
\* and fail and by nothing else, has counted a full hour, whatever its state;
\* updates do not postpone it; every registered session is eventually purged;
\* after the purge getProgress returns nothing and startUpload fails
C27_PurgedAfterAnHour ==
  /\ PurgeAtTheHour
  /\ []TimersPending
  /\ \A id \in UploadIds : (id \in DOMAIN progressMap) ~> (id \notin DOMAIN progressMap)

\* session 1 is gone, and a start on it has just failed, as the fourth call
C27_Witness ==
  /\ nextUploadId = 2
  /\ 1 \notin DOMAIN progressMap
  /\ 1 \notin DOMAIN cleanupTimers
  /\ calls = 4
  /\ last.op = "startUpload"
  /\ last.key = 1
  /\ last.raised = "UploadIdNotFound"

(* ------------------------------- claim C28 ----------------------------- *)

\* the step ends the streaming of request r: the stream's end, a stream error, or
\* an error of multer
EndsStreaming(r) ==
  \/ StreamEnd(r)
  \/ \E e \in Messages : StreamError(r, e) \/ MulterError(r, e)

\* C28: a request accepted by the upload handler leaves its session in state
\* uploading with loaded 0 before any of its byte counts is applied; a byte count
\* that is applied is the running total of the chunks the request has delivered
\* so far, and byte counts reach a session only from accepted requests; at the
\* step that ends the request's streaming the session is completed or error
C28_UploadLifecycle ==
  [][/\ \A r \in Requests :
          /\ streams[r].pc = "idle" /\ streams'[r].pc = "streaming"
               => /\ streams'[r].id \in DOMAIN progressMap'
                  /\ progressMap'[streams'[r].id].status = "uploading"
                  /\ progressMap'[streams'[r].id].loaded = 0
                  /\ streams'[r].loaded = 0
          /\ streams'[r].loaded # streams[r].loaded
               => /\ streams[r].pc = "streaming"
                  /\ streams'[r].loaded > streams[r].loaded
                  /\ streams'[r].loaded <= streams[r].total
                  /\ /\ streams[r].id \in DOMAIN progressMap
                     /\ progressMap[streams[r].id].status = "uploading"
                     => progressMap'[streams[r].id].loaded = streams'[r].loaded
          /\ EndsStreaming(r)
               => /\ streams[r].id \in DOMAIN progressMap'
                  /\ progressMap'[streams[r].id].status \in {"completed", "error"}
     /\ \A id \in DOMAIN progressMap :
          /\ id \in DOMAIN progressMap'
          /\ progressMap'[id].status = "uploading"
          /\ progressMap'[id].loaded # progressMap[id].loaded
          /\ progressMap[id].status = "uploading"
          /\ \A q \in Requests : streams'[q].pc = streams[q].pc
          => \E r \in Requests :
               /\ streams[r].pc = "streaming"
               /\ streams[r].id = id
               /\ progressMap'[id].loaded = streams'[r].loaded]_vars

\* request 1 delivered two of its three bytes, aborted, and left its session in
\* state error with the running total, after the request timeout's tick of time
C28_Witness ==
  /\ streams[1].pc = "streaming"
  /\ streams[1].ended
  /\ streams[1].raised = "aborted"
  /\ streams[1].loaded = MaxBytes - 1
  /\ streams[1].total = MaxBytes
  /\ streams[1].age = RequestTimeoutTicks
  /\ streams[1].id \in DOMAIN progressMap
  /\ progressMap[streams[1].id].status = "error"
  /\ progressMap[streams[1].id].loaded = MaxBytes - 1
  /\ progressMap[streams[1].id].error = "aborted"

(* ------------------------------- claim C29 ----------------------------- *)

\* the step belongs to the deleteImagesByOriginalKey request of slot t
DeleteImagesStep(t) ==
  \/ DeleteImagesStart(t, task'[t].key)
  \/ /\ task[t].op = "deleteImages"
     /\ \E p \in 1..MaxParentKeys :
          ImageAccess(t, p) \/ \E ok \in BOOLEAN : ImageUnlink(t, p, ok)

\* C29: no step of deleteImagesByOriginalKey(K) touches the document rows, the
\* status rows, K's own file or the rows and files of images of other parents,
\* and when the request returns without an error no image row with parent K is
\* left and the file of every image it enumerated is gone
C29_DeleteImagesByParent ==
  [][\A t \in Tasks :
       DeleteImagesStep(t) =>
         LET K == task'[t].key IN
         /\ files' = files
         /\ status' = status
         /\ K \in DOMAIN disk => K \in DOMAIN disk' /\ disk'[K] = disk[K]
         /\ \A i \in DOMAIN images :
              images[i].originalPdfKey # K
                => /\ i \in DOMAIN images' /\ images'[i] = images[i]
                   /\ i \in DOMAIN disk => i \in DOMAIN disk' /\ disk'[i] = disk[i]
         /\ DOMAIN images' \subseteq DOMAIN images
         /\ task'[t].pc = "done" /\ task'[t].raised = NoError /\ task[t].pc # "done"
              => /\ \A i \in DOMAIN images' : images'[i].originalPdfKey # K
                 /\ \A p \in task'[t].imgs : p \notin DOMAIN disk'
         /\ DeleteImagesStart(t, K) /\ task'[t].pc = "done"
              => \A i \in DOMAIN images' : images'[i].originalPdfKey # K]_vars

\* deleteImagesByOriginalKey(1) has returned after deleting an image of document 1;
\* document 1, its file and its status row are there, and so is the image of
\* document 2 with its file
C29_Witness ==
  /\ task[1].op = "deleteImages"
  /\ task[1].key = 1
  /\ task[1].pc = "done"
  /\ task[1].raised = NoError
  /\ task[1].imgs # {}
  /\ task[1].imgs \cap DOMAIN disk = {}
  /\ 1 \in DOMAIN files
  /\ 1 \in DOMAIN disk
  /\ 1 \in DOMAIN status.pdf
  /\ \E i \in DOMAIN images : images[i].originalPdfKey = 2 /\ i \in DOMAIN disk

(* ------------------------------- claim C30 ----------------------------- *)

\* C30: an upload-and-truncate request whose page selection is rejected by the
\* validation has created no document row, no status row and no truncated
\* artifact
C30_RejectedLeavesNothing ==
  [][\A t \in Tasks :
       /\ \E n \in 1..MaxPages, req \in AllSelections : UploadAndTruncate(t, n, TRUE, req)
       /\ task'[t].raised = "Validation"
       => /\ files' = files
          /\ status' = status
          /\ images' = images]_vars

(* ------------------------------- claim C31 ----------------------------- *)

\* C31: after every call made to both stores, the in-memory store and the durable
\* store have returned the same result or raised the same kind of error
C31_StoresInterchangeable ==
  /\ memLast.op # "none"
  => /\ memLast.result = last.result
     /\ (memLast.raised = NoError) = (last.raised = NoError)
     /\ memLast.raised \in {"FileNotFound", "FileGone", "StatusNotFound"}
          => last.raised = memLast.raised

\* the `createdAt` reported after a second setStatus for the same key is the same
C31_SameCreatedAt ==
  memLast.op = "get" /\ memLast.raised = NoError /\ last.raised = NoError
    => memLast.result.createdAt = last.result.createdAt

(* ------------------------------- claim C32 ----------------------------- *)

\* the step is a step of a request of kind op: its start, through the route or
\* not, or one of the steps that follow
StepOf(op) ==
  \E t \in Tasks :
    \/ /\ op \in Pipelines
       /\ \E k \in Keys, req \in Selections \cup ImgSelections :
            RunStart(t, op, k, req) \/ Route(t, op, k, req)
    \/ /\ task[t].op = op
       /\ \/ RunAccess(t)
          \/ RunRead(t)
          \/ TruncLoad(t)
          \/ TruncCopy(t)
          \/ \E ok \in BOOLEAN : TruncPersist(t, ok)
          \/ ConvLoad(t)
          \/ ConvLaunch(t)
          \/ ConvJoinEmpty(t)
          \/ \E i \in Keys, ok \in BOOLEAN : ConvRender(t, i, ok)
          \/ \E i \in Keys : ConvStore(t, i)
          \/ DeleteAccess(t)
          \/ \E p \in Keys, ok \in BOOLEAN : DeleteImageFile(t, p, ok)
          \/ \E ok \in BOOLEAN : DeleteDocFile(t, ok)
    \/ /\ op = "deleteFile"
       /\ \E k \in Keys : DeleteStart(t, k)

\* the step is a direct setStatus or updateStatus on the table
DirectOn(table) ==
  \E k \in Keys :
    \/ SetProcessingStatus(table, k, InitialStatus(clock + 1))
    \/ UpdateProcessingStatus(table, k, ProgressUpdate(25))

\* C32: a truncation run and a direct set or update on the truncation table leave
\* the image-status table as it is; a conversion run and a direct set or update on
\* the image table leave the truncation-status table as it is; a row leaves a
\* status table only in a step of deleteFile, and then the key leaves both
C32_TablesIndependent ==
  [][/\ StepOf("truncate") \/ DirectOn("pdf") => status'.img = status.img
     /\ StepOf("convert") \/ DirectOn("img") => status'.pdf = status.pdf
     /\ \A table \in {"pdf", "img"} : \A k \in DOMAIN status[table] :
          k \notin DOMAIN status'[table]
            => /\ StepOf("deleteFile")
               /\ k \notin DOMAIN status'.pdf
               /\ k \notin DOMAIN status'.img]_vars

\* deleteFile(1) has returned and has taken the rows of document 1 out of both
\* tables, after a direct update of the truncation row that left the image row alone
C32_Witness ==
  /\ task[1].op = "deleteFile"
  /\ task[1].key = 1
  /\ task[1].pc = "done"
  /\ task[1].raised = NoError
  /\ last.op = "update"
  /\ last.table = "pdf"
  /\ last.raised = NoError
  /\ 1 \notin DOMAIN status.pdf
  /\ 1 \notin DOMAIN status.img
  /\ 1 \notin DOMAIN files

(* ------------------- referential integrity of images ------------------- *)
\* storeImage(key, image) called with a parent of the caller's choice: stmt.run
\* throws the constraint error when the parent is not a row of files
StoreImageCall(parent, page, fmt) ==
  LET img == [key |-> nextKey, originalPdfKey |-> parent, filePath |-> nextKey,
              size |-> 1, pageNumber |-> page, format |-> fmt]
      ok == StoreImageAccepts(files, images, img)
  IN /\ nextKey <= MaxKeys
     /\ disk' = IF ok THEN Put(disk, nextKey, <<page>>) ELSE disk
     /\ images' = IF ok THEN Put(images, nextKey, ImageRow(img)) ELSE images
     /\ nextKey' = IF ok THEN nextKey + 1 ELSE nextKey
     /\ last' = [op |-> "storeImage", table |-> "images", key |-> parent,
                 before |-> NoStatus, update |-> NoStatus, result |-> NoStatus,
                 raised |-> IF ok THEN NoError ELSE "SqliteConstraint"]
     /\ UNCHANGED <<files, status, clock, task, uploads, removals, tracker, mem>>

\* documents and images stored, read, truncated and deleted, one request at a time
NextRef ==
  \/ \E n \in 1..MaxPages : Upload(n)
  \/ \E parent \in Keys : Free(1) /\ StoreImageCall(parent, 1, "png")
  \/ \E p \in Allocated : DiskRemove(p)
  \/ \E k \in Allocated, req \in Selections : TruncStart(1, k, req)
  \/ RunAccess(1)
  \/ RunRead(1)
  \/ TruncLoad(1)
  \/ TruncCopy(1)
  \/ \E ok \in BOOLEAN : TruncPersist(1, ok)
  \/ \E k \in Allocated : GetFileStart(1, k)
  \/ \E k \in Allocated : GetImageStart(1, k)
  \/ GetFileAccess(1)
  \/ GetImageAccess(1)
  \/ \E k \in Allocated : DeleteStart(1, k)
  \/ DeleteAccess(1)
  \/ \E p \in Keys, ok \in BOOLEAN : DeleteImageFile(1, p, ok)
  \/ \E ok \in BOOLEAN : DeleteDocFile(1, ok)

SpecRef == Init /\ [][NextRef]_vars

\* C33: in every reachable state of the durable store the parent of every image
\* row is the key of a row of files; storeImage for a parent that has no row of
\* files raises and stores nothing; and a step that removes a row of files, in
\* deleteFile or in the stale-row clean-up of getFile, leaves no image row of
\* that parent
C33_ReferentialIntegrity ==
  /\ [](\A i \in DOMAIN images : images[i].originalPdfKey \in DOMAIN files)
  /\ [][/\ last' # last /\ last'.op = "storeImage" /\ last'.key \notin DOMAIN files
             => last'.raised # NoError /\ images' = images
        /\ \A k \in DOMAIN files : k \notin DOMAIN files'
             => /\ \A i \in DOMAIN images' : images'[i].originalPdfKey # k
                /\ \E t \in Tasks : /\ task'[t].pc = "done"
                                    /\ task'[t].key = k
                                    /\ \/ task'[t].raised = "FileGone"
                                       \/ task'[t].op = "deleteFile"]_vars

\* an image was stored for document 1, the stale row of the document was cleaned
\* up by getFile, and a storeImage for the same parent has been refused
C33_Witness ==
  /\ last.op = "storeImage"
  /\ last.key = 1
  /\ last.raised = "SqliteConstraint"
  /\ task[1].op = "getFile"
  /\ task[1].raised = "FileGone"
  /\ 2 \in DOMAIN disk
  /\ 1 \notin DOMAIN files
  /\ DOMAIN images = {}

\* C34: in every reachable state every row of either status table has a key
\* for which a row of files exists: no status row is created for a key without
\* a stored document, and none outlives the removal of the document's row
C34_StatusHasDocument ==
  \A table \in {"pdf", "img"} : \A k \in DOMAIN status[table] : k \in DOMAIN files

\* C35: in every reachable state, runs on the same key interleaved or not, a
\* row in state completed carries no error message, a row in state processing
\* no completion time, and a row in state error both an error message and a
\* completion time
C35_StatusWellFormed ==
  \A table \in {"pdf", "img"} : \A k \in DOMAIN status[table] :
    LET s == status[table][k] IN
    /\ s.status = "completed" => s.error = NoError
    /\ s.status = "processing" => s.completedAt = NoTime
    /\ s.status = "error" => s.error # NoError /\ s.completedAt # NoTime

\* C36: the terminal state of a session is stable: no step takes a registered
\* session from error to completed or from completed to error (a step of
\* startUpload leaves it uploading, so only a new start opens the way to
\* another terminal state); for one request of the upload handler, a failure
\* reported through failUpload is not overwritten by the completeUpload of the
\* stream's end
C36_TerminalStable ==
  [][\A id \in DOMAIN progressMap :
       id \in DOMAIN progressMap'
         => /\ progressMap[id].status = "error" => progressMap'[id].status # "completed"
            /\ progressMap[id].status = "completed" => progressMap'[id].status # "error"]_vars

(* ------------------------------- claim C37 ----------------------------- *)

\* the pending timers whose callback names uploadId
TimersFor(uploadId) == {tm \in timeouts : tm.id = uploadId}

\* C37: in every reachable state of the tracker the ids with a pending expiry
\* timer are the registered ids, and each registered session has exactly one
\* pending timer, the one cleanupTimers holds: a timer that was superseded is
\* cancelled and never fires; and a step in which a timer fires removes the
\* session and the entry of cleanupTimers of its id
C37_OneTimerPerSession ==
  /\ [](/\ {tm.id : tm \in timeouts} = DOMAIN progressMap
        /\ DOMAIN cleanupTimers = DOMAIN progressMap
        /\ \A id \in DOMAIN progressMap :
             TimersFor(id) = {TimerOf(cleanupTimers, id)})
  /\ [][\A tm \in timeouts :
          tm \notin timeouts' /\ [tm EXCEPT !.due = @ - 1] \notin timeouts'
                              /\ tm.id \in DOMAIN progressMap'
            => \* superseded: cancelled by a setCleanupTimer, whose timer is pending
               TimersFor(tm.id)' = {[id |-> tm.id, due |-> HourTicks]}]_vars
  /\ [][\A id \in UploadIds : Expire(id)
          => /\ id \notin DOMAIN progressMap'
             /\ id \notin DOMAIN cleanupTimers'
             /\ TimersFor(id)' = {}]_vars

\* session 2 was completed one tick after it was registered, which superseded
\* its first timer; when that first timer would have fired, the timer of session
\* 1 did fire and removed it, and session 2 is there with its new timer pending
C37_Witness ==
  /\ nextUploadId = 3
  /\ 1 \notin DOMAIN progressMap
  /\ 1 \notin DOMAIN cleanupTimers
  /\ 2 \in DOMAIN progressMap
  /\ progressMap[2].status = "completed"
  /\ timeouts = {[id |-> 2, due |-> HourTicks - 1]}

(* ------------------------------- claim C38 ----------------------------- *)

\* the requests in slots d and c are a deleteFile and an image conversion run
\* for the same key, and both have finished, the page conversions of the run
\* included; a request takes the second slot only while the first is busy, so
\* the two requests overlapped
DeleteMetConversion(d, c) ==
  /\ d # c
  /\ task[d].op = "deleteFile"
  /\ task[c].op = "convert"
  /\ task[d].key = task[c].key
  /\ task[d].pc = "done"
  /\ task[c].pc = "done"
  /\ Free(d)
  /\ Free(c)

\* C38: when deleteFile(K) has interleaved with an image conversion run for K
\* and both have finished, every image file the run produced that is on disk
\* has an image row naming K as its parent, and the image status row of K, if
\* there is one, is completed or error
C38_DeleteDuringConversion ==
  \A d \in Tasks, c \in Tasks :
    DeleteMetConversion(d, c)
      => /\ \A i \in 1..Len(task[c].conv) :
              task[c].conv[i].key \in DOMAIN disk
                => /\ task[c].conv[i].key \in DOMAIN images
                   /\ images[task[c].conv[i].key].originalPdfKey = task[c].key
         /\ task[c].key \in DOMAIN status.img
              => status.img[task[c].key].status \in {"completed", "error"}

(* ------------------------------- claim C39 ----------------------------- *)

\* a pipeline run is between its start and its return
InRun(t) == task[t].op \in Pipelines /\ task[t].pc \notin {"idle", "done"}

\* the keys a run may ask generateKey for: one for the truncated document, one
\* for each page of an image conversion
KeysFor(op) == IF op = "truncate" THEN 1 ELSE MaxPages

\* a run starts when no other run is under way and the keys it may need are there
MayStart(op) ==
  /\ \A t \in Tasks : ~InRun(t)
  /\ nextKey + KeysFor(op) - 1 <= MaxKeys

\* the next step of the run in slot t: an external call of it returns or fails
RunStep(t) ==
  \/ RunAccess(t)
  \/ RunRead(t)
  \/ TruncLoad(t)
  \/ TruncCopy(t)
  \/ \E ok \in BOOLEAN : TruncPersist(t, ok)
  \/ ConvLoad(t)
  \/ ConvLaunch(t)
  \/ ConvJoinEmpty(t)
  \/ \E i \in 1..MaxKeys, ok \in BOOLEAN : ConvRender(t, i, ok)
  \/ \E i \in 1..MaxKeys : ConvStore(t, i)

\* pipeline runs one at a time, with deleteFile and the loss of files beside them
NextLive ==
  \/ \E n \in 1..MaxPages : (\A t \in Tasks : ~InRun(t)) /\ Upload(n)
  \/ \E k \in Allocated : (\A t \in Tasks : ~InRun(t)) /\ StoreImage(k, 1, "png")
  \/ \E p \in Allocated : DiskRemove(p)
  \/ \E t \in Tasks, k \in Allocated, req \in Selections :
       MayStart("truncate") /\ TruncStart(t, k, req)
  \/ \E t \in Tasks, k \in Allocated, req \in ImgSelections :
       MayStart("convert") /\ ConvStart(t, k, req)
  \/ \E t \in Tasks : RunStep(t)
  \/ \E t \in Tasks, k \in Allocated : DeleteStart(t, k)
  \/ \E t \in Tasks : DeleteAccess(t)
  \/ \E t \in Tasks, p \in Keys, ok \in BOOLEAN : DeleteImageFile(t, p, ok)
  \/ \E t \in Tasks, ok \in BOOLEAN : DeleteDocFile(t, ok)

\* every external step a run waits for eventually returns or fails
SpecLive ==
  /\ Init
  /\ [][NextLive]_vars
  /\ \A t \in Tasks : WF_vars(RunStep(t))

\* C39: provided every external step eventually returns or fails, every
\* pipeline run eventually returns or raises, and in the step in which it does
\* the status row of its key, if the key has one, is not in state processing
C39_RunsEnd ==
  /\ \A t \in Tasks : InRun(t) ~> task[t].pc = "done"
  /\ [][\A t \in Tasks :
          Returns(t) /\ task'[t].op \in Pipelines
            => \/ task'[t].key \notin DOMAIN status'[TableOf(task'[t].op)]
               \/ status'[TableOf(task'[t].op)][task'[t].key].status # "processing"]_vars

\* a conversion run of two pages has raised after its first page failed, with the
\* status row in state error, while deleteFile for the same key is under way
C39_Witness ==
  /\ task[1].op = "convert"
  /\ task[1].pc = "done"
  /\ task[1].raised = "Processing"
  /\ Len(task[1].conv) = MaxPages
  /\ status.img[task[1].key].status = "error"
  /\ task[2].op = "deleteFile"
  /\ task[2].key = task[1].key
  /\ task[2].pc # "done"

====
